---- MODULE Spec2Model ----
(***************************************************************************)
(* Authentication and authorization of the MERN server:                    *)
(*   utils/auth.js       extractToken, generateToken, verifyToken, hasRole  *)
(*   middleware/auth.js  authenticateToken, requireRole, requireOwnership,  *)
(*                       optionalAuth                                      *)
(*   controllers/authController.js  register, login, updateProfile, logout *)
(*   routes/auth.js, routes/users.js, routes/posts.js                      *)
(* Strings are sequences of characters; the segments of a JWT are opaque   *)
(* chunks (one chunk never holds a space or a dot).  Time is counted in    *)
(* days.                                                                   *)
(***************************************************************************)
EXTENDS Integers, Sequences, FiniteSets, TLC

VARIABLES now,        \* the clock read by jwt.sign / jwt.verify, in days
          users,      \* the User collection: hex id -> document or NoUser
          op,         \* name of the call that completed last
          arg,        \* its inputs
          ret,        \* its outcome (return value or thrown error)
          req,        \* the request object after the middleware ran
          res,        \* the responses sent on it, in order
          nextCalls,  \* how many times the middleware called next()
          held,       \* the token the client keeps from its last register or login
          pending,    \* the registrations between their findOne and their create
          post,       \* a Post document and the toggleLike calls made on it
          hook,       \* useApi: the state cells and the last render of the hook
          calls,      \* useApi: the calls of execute, in the order they started
          fetched,    \* useApi: the options of every call of fetch, in order
          boundary    \* ErrorBoundary: props, state and what it rendered

vars == <<now, users, op, arg, ret, req, res, nextCalls, held,
          pending, post, hook, calls, fetched, boundary>>

\* what the calls of the server API leave alone
others == <<pending, post, hook, calls, fetched, boundary>>

(***************************************************************************)
(* Bounds                                                                  *)
(***************************************************************************)
MaxTime == 8        \* the clock stops here
MaxPieces == 5      \* an Authorization header is built from at most this many pieces
MaxToggles == 4     \* toggleLike is called at most this many times on one document
MaxPending == 2     \* at most this many registrations are between findOne and create
MaxErrors == 3      \* the children of one ErrorBoundary throw at most this many times
MaxCalls == 2       \* execute is called at most this many times on one mounted hook

(***************************************************************************)
(* JavaScript values                                                       *)
(***************************************************************************)
Undefined == [t |-> "undefined"]
Null == [t |-> "null"]
Str(s) == [t |-> "string", v |-> s]
Obj(o) == [t |-> "object", v |-> o]

\* !x for the values a header or a token can take
Falsy(x) == x = Undefined \/ x = Null \/ x = Str(<<>>)

Return(v) == [kind |-> "return", value |-> v]
Throw(n, m) == [kind |-> "throw", name |-> n, message |-> m]

(***************************************************************************)
(* String.prototype.split                                                  *)
(***************************************************************************)
RECURSIVE Split(_, _)
Split(s, sep) ==
  IF s = <<>> THEN << <<>> >>
  ELSE IF Head(s) = sep THEN << <<>> >> \o Split(Tail(s), sep)
  ELSE LET r == Split(Tail(s), sep)
       IN  << <<Head(s)>> \o Head(r) >> \o Tail(r)

Bearer == <<"B", "e", "a", "r", "e", "r">>

(***************************************************************************)
(* utils/auth.js extractToken                                              *)
(***************************************************************************)
extractToken(authHeader) ==
  IF Falsy(authHeader) THEN Return(Null)
  ELSE LET parts == Split(authHeader.v, " ")
       IN  IF Len(parts) # 2 \/ parts[1] # Bearer
           THEN Return(Null)
           ELSE Return(Str(parts[2]))

(***************************************************************************)
(* Authorization header values                                             *)
(***************************************************************************)
Pieces == { Bearer,
            <<"b", "e", "a", "r", "e", "r">>,
            <<"B", "a", "s", "i", "c">>,
            <<" ">>,
            <<"a", "b", "c">> }

RECURSIVE Concats(_)
Concats(n) ==
  IF n = 0 THEN { <<>> }
  ELSE LET shorter == Concats(n - 1)
       IN  shorter \cup { s \o p : s \in shorter, p \in Pieces }

HeaderValues == { Undefined, Null } \cup { Str(s) : s \in Concats(MaxPieces) }

(***************************************************************************)
(* Identities.  An _id is a string (plain objects, as in the unit tests)   *)
(* or an ObjectId instance (documents loaded by Mongoose); ref tells two   *)
(* ObjectId instances with the same hex value apart.                        *)
(***************************************************************************)
HexIds == { "64a1", "64b2" }
Usernames == { "alice", "bob" }
Emails == { "alice@example.com", "bob@example.com" }
Roles == { "user", "admin" }

StringId(h) == [kind |-> "String", hex |-> h, ref |-> 0]
ObjectId(h, r) == [kind |-> "ObjectId", hex |-> h, ref |-> r]
IdValues == { StringId(h) : h \in HexIds } \cup { ObjectId(h, r) : h \in HexIds, r \in 1..2 }

\* id.toString(), also what JSON.stringify writes for an id
toString(id) == id.hex

\* a === b: strings by value, objects by reference
StrictEq(a, b) ==
  IF a.kind = "String" /\ b.kind = "String" THEN a.hex = b.hex
  ELSE a.kind = b.kind /\ a.hex = b.hex /\ a.ref = b.ref

\* the users handed to generateToken
UserInputs == [ _id : IdValues, username : Usernames, email : Emails, role : Roles ]

(***************************************************************************)
(* config/env.js                                                           *)
(***************************************************************************)
JWT_SECRET == "your-super-secret-jwt-key-change-in-production"
JWT_EXPIRE == 7
OtherSecret == "some-other-secret"
Secrets == { JWT_SECRET, OtherSecret }

(***************************************************************************)
(* jsonwebtoken: a token is header.payload.signature                       *)
(***************************************************************************)
JwtHeader == "eyJhbGciOiJIUzI1NiIsInR5cCI6IkpXVCJ9"

Claims(id, username, email, role, iat, exp) ==
  [id |-> id, username |-> username, email |-> email, role |-> role,
   iat |-> iat, exp |-> exp]

\* the payloads a decodable segment can stand for
PayloadSpace ==
  { Claims(h, u, e, r, i, i + JWT_EXPIRE) :
      h \in HexIds, u \in Usernames, e \in Emails, r \in Roles, i \in 0..MaxTime }

\* base64url(JSON.stringify(payload))
EncodePayload(p) ==
  p.id \o "," \o p.username \o "," \o p.email \o "," \o p.role \o ","
       \o ToString(p.iat) \o "," \o ToString(p.exp)

\* the inverse of EncodePayload, as a table of <<segment, payload>>
PayloadTable == { <<EncodePayload(p), p>> : p \in PayloadSpace }

Decodable(seg) == \E x \in PayloadTable : x[1] = seg
DecodePayload(seg) == (CHOOSE x \in PayloadTable : x[1] = seg)[2]

\* HMAC-SHA256 of header.payload under a secret
Hmac(secret, header, payloadSeg) ==
  "hs256(" \o secret \o "," \o header \o "." \o payloadSeg \o ")"

jwtSign(payload, secret, expiresIn, clock) ==
  LET full == Claims(payload.id, payload.username, payload.email, payload.role,
                     clock, clock + expiresIn)
      seg  == EncodePayload(full)
  IN  Str(<< JwtHeader, ".", seg, ".", Hmac(secret, JwtHeader, seg) >>)

jwtVerify(token, secret, clock) ==
  IF Falsy(token) THEN Throw("JsonWebTokenError", "jwt must be provided")
  ELSE IF token.t # "string" THEN Throw("JsonWebTokenError", "jwt must be a string")
  ELSE LET parts == Split(token.v, ".")
       IN  IF Len(parts) # 3 THEN Throw("JsonWebTokenError", "jwt malformed")
           ELSE IF \/ Len(parts[1]) # 1 \/ Len(parts[2]) # 1
                   \/ parts[1][1] # JwtHeader
                   \/ ~Decodable(parts[2][1])
                THEN Throw("JsonWebTokenError", "invalid token")
           ELSE IF parts[3] = <<>>
                THEN Throw("JsonWebTokenError", "jwt signature is required")
           ELSE IF parts[3] # << Hmac(secret, parts[1][1], parts[2][1]) >>
                THEN Throw("JsonWebTokenError", "invalid signature")
           ELSE LET payload == DecodePayload(parts[2][1])
                IN  IF clock >= payload.exp
                    THEN Throw("TokenExpiredError", "jwt expired")
                    ELSE Return(Obj(payload))

(***************************************************************************)
(* utils/auth.js generateToken, verifyToken                                *)
(***************************************************************************)
\* generateToken writing the schema's default role instead of the user's
generateToken_defaultRole(user, clock) ==
  LET payload == [id |-> toString(user._id),
                  username |-> user.username,
                  email |-> user.email,
                  role |-> "user"]
  IN  jwtSign(payload, JWT_SECRET, JWT_EXPIRE, clock)

generateToken(user, clock) ==
  LET payload == [id |-> toString(user._id),
                  username |-> user.username,
                  email |-> user.email,
                  role |-> user.role]
  IN  jwtSign(payload, JWT_SECRET, JWT_EXPIRE, clock)

\* verifyToken without its try/catch: the library's error escapes
verifyToken_rethrow(token, clock) == jwtVerify(token, JWT_SECRET, clock)

\* verifyToken passing the cause on: throw new Error(error.message)
verifyToken_leak(token, clock) ==
  LET r == jwtVerify(token, JWT_SECRET, clock)
  IN  IF r.kind = "return" THEN r
      ELSE Throw("Error", r.message)

verifyToken(token, clock) ==
  LET r == jwtVerify(token, JWT_SECRET, clock)
  IN  IF r.kind = "return" THEN r
      ELSE Throw("Error", "Invalid token")

\* token strings that were never produced by jwt.sign
MalformedTokens ==
  { Str(<<"not-a-token">>),
    Str(<<"invalid", ".", "token", ".", "here">>),
    Str(<<"invalid", ".", "token">>),
    Str(<< JwtHeader, ".", "e30", ".">>) }

(***************************************************************************)
(* utils/auth.js hasRole                                                   *)
(***************************************************************************)
Num(n) == [t |-> "number", v |-> n]
Bool(b) == [t |-> "boolean", v |-> b]
Inherited(key) == [t |-> "function", v |-> key]

\* keys every object literal inherits from Object.prototype, in the order of
\* the strings their values convert to ("function Object() ...",
\* "function toString() ...", "function valueOf() ...")
ObjectPrototypeKeys == << "constructor", "toString", "valueOf" >>
IsInherited(key) == \E i \in 1..Len(ObjectPrototypeKeys) : ObjectPrototypeKeys[i] = key
TextRank(key) == CHOOSE i \in 1..Len(ObjectPrototypeKeys) : ObjectPrototypeKeys[i] = key

\* the role arguments tried; obj[undefined] reads the key "undefined"
RoleArgs == Roles \cup { "undefined", "invalid", "constructor", "toString", "valueOf" }

\* roleHierarchy[key]
roleHierarchy(key) ==
  IF key = "user" THEN Num(1)
  ELSE IF key = "admin" THEN Num(2)
  ELSE IF IsInherited(key) THEN Inherited(key)
  ELSE Undefined

\* a >= b: two non-numeric operands compare as strings, anything else as
\* numbers, where undefined and a function's text are NaN
GreaterEq(a, b) ==
  IF a.t = "function" /\ b.t = "function" THEN TextRank(a.v) >= TextRank(b.v)
  ELSE IF a.t = "number" /\ b.t = "number" THEN a.v >= b.v
  ELSE FALSE

hasRole(userRole, requiredRole) ==
  GreaterEq(roleHierarchy(userRole), roleHierarchy(requiredRole))

(***************************************************************************)
(* Requests and responses                                                  *)
(***************************************************************************)
Json(status, message) ==
  [status |-> status, body |-> [success |-> FALSE, message |-> message]]

\* what a middleware did: the request it leaves, the responses it sent and
\* its calls of next()
Outcome(request, responses, n) ==
  [req |-> request, res |-> responses, nextCalls |-> n]

NewRequest(authorization, user, resource) ==
  [headers |-> [authorization |-> authorization], user |-> user, resource |-> resource]

(***************************************************************************)
(* middleware/auth.js requireRole, requireOwnership                        *)
(***************************************************************************)
\* requireRole with the arguments of hasRole swapped
requireRole_swapped(requiredRole, request) ==
  IF Falsy(request.user)
  THEN Outcome(request, << Json(401, "Authentication required") >>, 0)
  ELSE IF ~hasRole(requiredRole, request.user.v.role)
  THEN Outcome(request, << Json(403, "Access denied - insufficient permissions") >>, 0)
  ELSE Outcome(request, << >>, 1)

requireRole(requiredRole, request) ==
  IF Falsy(request.user)
  THEN Outcome(request, << Json(401, "Authentication required") >>, 0)
  ELSE IF ~hasRole(request.user.v.role, requiredRole)
  THEN Outcome(request, << Json(403, "Access denied - insufficient permissions") >>, 0)
  ELSE Outcome(request, << >>, 1)

\* req.resource && req.resource[resourceField]
ResourceUserId(request, resourceField) ==
  IF Falsy(request.resource) THEN request.resource
  ELSE request.resource.v[resourceField]

\* requireOwnership with the admin bypass placed after the resource check
requireOwnership_adminLate(resourceField, request) ==
  IF Falsy(request.user)
  THEN Outcome(request, << Json(401, "Authentication required") >>, 0)
  ELSE LET resourceUserId == ResourceUserId(request, resourceField)
           denied == Outcome(request,
                       << Json(403, "Access denied - you can only access your own resources") >>, 0)
       IN  IF Falsy(resourceUserId) THEN denied
           ELSE IF request.user.v.role = "admin" THEN Outcome(request, << >>, 1)
           ELSE IF toString(resourceUserId.v) # toString(request.user.v._id) THEN denied
           ELSE Outcome(request, << >>, 1)

\* requireOwnership comparing the two ids with !== instead of their strings
requireOwnership_byReference(resourceField, request) ==
  IF Falsy(request.user)
  THEN Outcome(request, << Json(401, "Authentication required") >>, 0)
  ELSE IF request.user.v.role = "admin"
  THEN Outcome(request, << >>, 1)
  ELSE LET resourceUserId == ResourceUserId(request, resourceField)
       IN  IF \/ Falsy(resourceUserId)
              \/ ~StrictEq(resourceUserId.v, request.user.v._id)
           THEN Outcome(request,
                  << Json(403, "Access denied - you can only access your own resources") >>, 0)
           ELSE Outcome(request, << >>, 1)

requireOwnership(resourceField, request) ==
  IF Falsy(request.user)
  THEN Outcome(request, << Json(401, "Authentication required") >>, 0)
  ELSE IF request.user.v.role = "admin"
  THEN Outcome(request, << >>, 1)
  ELSE LET resourceUserId == ResourceUserId(request, resourceField)
       IN  IF \/ Falsy(resourceUserId)
              \/ toString(resourceUserId.v) # toString(request.user.v._id)
           THEN Outcome(request,
                  << Json(403, "Access denied - you can only access your own resources") >>, 0)
           ELSE Outcome(request, << >>, 1)

(***************************************************************************)
(* The User collection                                                     *)
(***************************************************************************)
UsernameOf == [h \in HexIds |-> IF h = "64a1" THEN "alice" ELSE "bob"]
EmailOf == [h \in HexIds |-> IF h = "64a1" THEN "alice@example.com" ELSE "bob@example.com"]

\* bcrypt: the hash stored for a password, and bcrypt.compare
Passwords == { "Password123", "WrongPass9" }
Hash(password) == "$2a$12$" \o password
comparePassword(candidatePassword, password) == Hash(candidatePassword) = password

\* a document of the schema
NewDocument(id, username, email, password, firstName, lastName, role, isActive, lastLogin, profileImage) ==
  [_id |-> id, username |-> username, email |-> email, password |-> password,
   firstName |-> firstName, lastName |-> lastName, role |-> role,
   isActive |-> isActive, lastLogin |-> lastLogin, profileImage |-> profileImage]

\* the pre('save') hook hashing the password at every save
preSave_always(doc, isModifiedPassword) == [doc EXCEPT !.password = Hash(doc.password)]

\* the pre('save') hook: the password is hashed when this.isModified('password')
preSave(doc, isModifiedPassword) ==
  IF ~isModifiedPassword THEN doc ELSE [doc EXCEPT !.password = Hash(doc.password)]

\* User.create saves a new document, every path of which is modified
create(doc) == preSave(doc, TRUE)

\* updateLastLogin sets lastLogin and saves; the password is not modified
updateLastLogin(doc, clock) == preSave([doc EXCEPT !.lastLogin = clock], FALSE)

\* the document stored under a hex id; r names the ObjectId instance of a load
Document(h, role, isActive, r) ==
  NewDocument(ObjectId(h, r), UsernameOf[h], EmailOf[h], Hash("Password123"),
              "Test", "User", role, isActive, Null, "")

\* query.select('-password'), and the schema's select: false
WithoutPassword(doc) ==
  IF doc = Null THEN Null ELSE [f \in DOMAIN doc \ {"password"} |-> doc[f]]

Documents(h) == { Document(h, role, a, 1) : role \in Roles, a \in BOOLEAN }
Stores == { s \in [HexIds -> {Null} \cup UNION { Documents(h) : h \in HexIds }] :
              \A h \in HexIds : s[h] = Null \/ s[h] \in Documents(h) }
EmptyStore == [h \in HexIds |-> Null]

\* User.findById(id).select('-password'); the query rejects when the
\* database cannot be reached
findById(store, id, dbDown) ==
  IF dbDown THEN Throw("MongooseError", "buffering timed out")
  ELSE IF id \in DOMAIN store THEN Return(WithoutPassword(store[id]))
  ELSE Return(Null)

(***************************************************************************)
(* middleware/auth.js authenticateToken                                    *)
(***************************************************************************)
\* authenticateToken without the isActive check
authenticateToken_noActiveCheck(request, store, clock, dbDown) ==
  LET token   == extractToken(request.headers.authorization).value
      caught  == Outcome(request, << Json(401, "Invalid or expired token") >>, 0)
  IN  IF Falsy(token)
      THEN Outcome(request, << Json(401, "Access token is required") >>, 0)
      ELSE LET decoded == verifyToken(token, clock)
           IN  IF decoded.kind = "throw" THEN caught
               ELSE LET found == findById(store, decoded.value.v.id, dbDown)
                    IN  IF found.kind = "throw" THEN caught
                        ELSE IF found.value = Null
                        THEN Outcome(request, << Json(401, "User not found") >>, 0)
                        ELSE Outcome([request EXCEPT !.user = Obj(found.value)], << >>, 1)

\* authenticateToken handing a failed lookup to next(error)
authenticateToken_lookupToNext(request, store, clock, dbDown) ==
  LET token   == extractToken(request.headers.authorization).value
      caught  == Outcome(request, << Json(401, "Invalid or expired token") >>, 0)
  IN  IF Falsy(token)
      THEN Outcome(request, << Json(401, "Access token is required") >>, 0)
      ELSE LET decoded == verifyToken(token, clock)
           IN  IF decoded.kind = "throw" THEN caught
               ELSE LET found == findById(store, decoded.value.v.id, dbDown)
                    IN  IF found.kind = "throw" THEN Outcome(request, << >>, 1)
                        ELSE IF found.value = Null
                        THEN Outcome(request, << Json(401, "User not found") >>, 0)
                        ELSE IF ~found.value.isActive
                        THEN Outcome(request, << Json(401, "Account is deactivated") >>, 0)
                        ELSE Outcome([request EXCEPT !.user = Obj(found.value)], << >>, 1)

\* authenticateToken attaching the stored user under the role of the token
authenticateToken_tokenRole(request, store, clock, dbDown) ==
  LET token   == extractToken(request.headers.authorization).value
      caught  == Outcome(request, << Json(401, "Invalid or expired token") >>, 0)
  IN  IF Falsy(token)
      THEN Outcome(request, << Json(401, "Access token is required") >>, 0)
      ELSE LET decoded == verifyToken(token, clock)
           IN  IF decoded.kind = "throw" THEN caught
               ELSE LET found == findById(store, decoded.value.v.id, dbDown)
                    IN  IF found.kind = "throw" THEN caught
                        ELSE IF found.value = Null
                        THEN Outcome(request, << Json(401, "User not found") >>, 0)
                        ELSE IF ~found.value.isActive
                        THEN Outcome(request, << Json(401, "Account is deactivated") >>, 0)
                        ELSE Outcome([request EXCEPT
                                        !.user = Obj([found.value EXCEPT
                                                        !.role = decoded.value.v.role])],
                                     << >>, 1)

authenticateToken(request, store, clock, dbDown) ==
  LET token   == extractToken(request.headers.authorization).value
      caught  == Outcome(request, << Json(401, "Invalid or expired token") >>, 0)
  IN  IF Falsy(token)
      THEN Outcome(request, << Json(401, "Access token is required") >>, 0)
      ELSE LET decoded == verifyToken(token, clock)
           IN  IF decoded.kind = "throw" THEN caught
               ELSE LET found == findById(store, decoded.value.v.id, dbDown)
                    IN  IF found.kind = "throw" THEN caught
                        ELSE IF found.value = Null
                        THEN Outcome(request, << Json(401, "User not found") >>, 0)
                        ELSE IF ~found.value.isActive
                        THEN Outcome(request, << Json(401, "Account is deactivated") >>, 0)
                        ELSE Outcome([request EXCEPT !.user = Obj(found.value)], << >>, 1)

(***************************************************************************)
(* middleware/auth.js optionalAuth                                         *)
(***************************************************************************)
\* optionalAuth answering 401 from its catch block, as authenticateToken does
optionalAuth_rejects(request, store, clock, dbDown) ==
  LET token   == extractToken(request.headers.authorization).value
      caught  == Outcome(request, << Json(401, "Invalid or expired token") >>, 0)
  IN  IF Falsy(token) THEN Outcome(request, << >>, 1)
      ELSE LET decoded == verifyToken(token, clock)
           IN  IF decoded.kind = "throw" THEN caught
               ELSE LET found == findById(store, decoded.value.v.id, dbDown)
                    IN  IF found.kind = "throw" THEN caught
                        ELSE IF found.value # Null /\ found.value.isActive
                        THEN Outcome([request EXCEPT !.user = Obj(found.value)], << >>, 1)
                        ELSE Outcome(request, << >>, 1)

optionalAuth(request, store, clock, dbDown) ==
  LET token   == extractToken(request.headers.authorization).value
      caught  == Outcome(request, << >>, 1)
  IN  IF Falsy(token) THEN Outcome(request, << >>, 1)
      ELSE LET decoded == verifyToken(token, clock)
           IN  IF decoded.kind = "throw" THEN caught
               ELSE LET found == findById(store, decoded.value.v.id, dbDown)
                    IN  IF found.kind = "throw" THEN caught
                        ELSE IF found.value # Null /\ found.value.isActive
                        THEN Outcome([request EXCEPT !.user = Obj(found.value)], << >>, 1)
                        ELSE Outcome(request, << >>, 1)

(***************************************************************************)
(* middleware/validation.js                                                *)
(***************************************************************************)
\* a response of a handler that succeeded
Ok(status, message) ==
  [status |-> status, body |-> [success |-> TRUE, message |-> message]]

\* a request as a router sees it
RouteRequest(authorization, params, query, body) ==
  [headers |-> [authorization |-> authorization], user |-> Undefined,
   resource |-> Undefined, params |-> params, query |-> query, body |-> body]

HexDigits == { "0", "1", "2", "3", "4", "5", "6", "7", "8", "9",
               "a", "b", "c", "d", "e", "f" }

\* validator.js on a field; a field that is absent is validated as ''
Text(field) == IF field = Undefined THEN << >> ELSE field.v
isMongoId(field) ==
  Len(Text(field)) = 24 /\ \A i \in 1..24 : Text(field)[i] \in HexDigits
isLength(field, min, max) == Len(Text(field)) >= min /\ Len(Text(field)) <= max
\* /^[a-z0-9]+(?:-[a-z0-9]+)*$/
isSlug(field) ==
  LET x == Text(field)
      \* the characters of [a-z0-9] that the slugs sent here are written in
      SlugChars == HexDigits \cup { "n", "w", "p", "o", "s", "t" }
  IN  /\ Len(x) > 0
      /\ \A i \in 1..Len(x) : x[i] \in SlugChars \cup { "-" }
      /\ x[1] # "-" /\ x[Len(x)] # "-"
      /\ \A i \in 1..(Len(x) - 1) : ~(x[i] = "-" /\ x[i + 1] = "-")
\* isInt({ min: 1 }) on a string of one character
isPositiveInt(field) == Len(Text(field)) = 1 /\ Text(field)[1] \in HexDigits \ { "0", "a", "b", "c", "d", "e", "f" }

\* the fields in which the chains of a validation find an error; a chain
\* marked optional() skips a field that is absent
Failing(checks) == { c[1] : c \in { k \in checks : ~k[2] } }
Optional(field, valid) == field = Undefined \/ valid

\* what the sign-up and login forms are filled with; emails and passwords are
\* whole values, told apart by the tables below
EmailInputs == Emails \cup { "Alice@Example.com", "not-an-email" }
isEmail(email) == email # "not-an-email"
\* /^(?=.*[a-z])(?=.*[A-Z])(?=.*\d)/ and isLength({ min: 6 })
isStrongPassword(password) == password \in Passwords
\* normalizeEmail() writes the address in lower case
normalizeEmail(email) == IF email = "Alice@Example.com" THEN "alice@example.com" ELSE email

validationErrors(validation, request) ==
  IF validation = "validateUserRegistration"
  THEN Failing({ <<"email", isEmail(request.body.email)>>,
                 <<"password", isStrongPassword(request.body.password)>> })
  ELSE IF validation = "validateUserLogin"
  THEN Failing({ <<"email", isEmail(request.body.email)>> })
  ELSE IF validation = "validateObjectId('id')"
  THEN Failing({ <<"id", isMongoId(request.params.id)>> })
  ELSE IF validation = "validatePagination"
  THEN Failing({ <<"page", Optional(request.query.page, isPositiveInt(request.query.page))>> })
  ELSE IF validation = "validatePostCreation"
  THEN Failing({ <<"title", isLength(request.body.title, 3, 200)>>,
                 <<"content", isLength(request.body.content, 10, 5000)>>,
                 <<"slug", isSlug(request.body.slug)>>,
                 <<"category", isMongoId(request.body.category)>> })
  ELSE Failing({ <<"title", Optional(request.body.title, isLength(request.body.title, 3, 200))>>,
                 <<"content", Optional(request.body.content, isLength(request.body.content, 10, 5000))>>,
                 <<"slug", Optional(request.body.slug, isSlug(request.body.slug))>>,
                 <<"category", Optional(request.body.category, isMongoId(request.body.category))>> })

\* the request as the sanitizers of the chains leave it
Sanitized(validation, request) ==
  IF validation \in { "validateUserRegistration", "validateUserLogin" }
  THEN [request EXCEPT !.body.email = normalizeEmail(@)]
  ELSE request

\* the chains of a validation followed by handleValidationErrors
handleValidationErrors(validation, request) ==
  LET errors == validationErrors(validation, request)
      failed == [status |-> 400,
                 body |-> [success |-> FALSE, message |-> "Validation failed",
                           errors |-> errors]]
  IN  IF errors # { }
      THEN Outcome(Sanitized(validation, request), << failed >>, 0)
      ELSE Outcome(Sanitized(validation, request), << >>, 1)

\* ids and bodies sent to the posts and users routers
ValidId == Str(<<"5", "0", "7", "f", "1", "f", "7", "7", "b", "c", "f", "8", "6", "c", "d", "7", "9", "9", "4", "3", "9", "0", "1", "1">>)
ParamIds ==
  { ValidId,
    Str(<<"5", "0", "7", "f", "1", "f", "7", "7", "b", "c", "f", "8", "6", "c", "d", "7", "9", "9", "4", "3", "9", "0", "1">>),
    Str(<<"i", "n", "v", "a", "l", "i", "d", "-", "i", "d">>) }
NoParams == [id |-> Undefined]
NoQuery == [page |-> Undefined]
Pages == { Undefined, Str(<<"1">>), Str(<<"0">>) }
PostBody(title, content, slug, category) ==
  [title |-> title, content |-> content, slug |-> slug, category |-> category]
NoBody == PostBody(Undefined, Undefined, Undefined, Undefined)
PostBodies ==
  LET GoodTitle   == Str(<<"N", "e", "w", " ", "P", "o", "s", "t">>)
      GoodContent == Str(<<"0", "1", "2", "3", "4", "5", "6", "7", "8", "9">>)
      GoodSlug    == Str(<<"n", "e", "w", "-", "p", "o", "s", "t">>)
  IN  { PostBody(GoodTitle, GoodContent, GoodSlug, ValidId),
        PostBody(Undefined, GoodContent, GoodSlug, ValidId),
        PostBody(GoodTitle, Undefined, Undefined, Undefined),
        PostBody(Str(<<"N">>), Undefined, Undefined, Undefined),
        NoBody }

(***************************************************************************)
(* middleware/errorHandler.js: an AppError thrown in a controller is        *)
(* answered with its status code and its message                           *)
(***************************************************************************)
AppError(message, statusCode) ==
  [name |-> "AppError", message |-> message, statusCode |-> statusCode]
globalErrorHandler(err) == Json(err.statusCode, err.message)

(***************************************************************************)
(* controllers/authController.js                                           *)
(***************************************************************************)
\* a response that carries a token and the user it was issued to
WithToken(status, message, token, user) ==
  [status |-> status,
   body |-> [success |-> TRUE, message |-> message,
             data |-> [token |-> token,
                       user |-> [id |-> user._id, username |-> user.username,
                                 email |-> user.email, role |-> user.role]]]]

\* what a controller did: the collection it leaves, its response, and the
\* token it issued with the user it read
Did(store, response, token, user) ==
  [users |-> store, res |-> << response >>, token |-> token, user |-> user]

\* the ids of the documents User.findOne({ $or: [{ email }, { username }] })
\* can return
Matching(store, email, username) ==
  { h \in HexIds : store[h] # Null
                   /\ (store[h].email = email \/ store[h].username = username) }

\* the id of a new document
FreshId(store) == ObjectId(CHOOSE h \in HexIds : store[h] = Null, 1)

\* the error of a save that the unique index on email or username refuses
DuplicateKey ==
  [name |-> "MongoServerError", message |-> "E11000 duplicate key error", statusCode |-> 500]

\* register blaming the email for every collision
register_alwaysEmail(body, existingUser, store, clock) ==
  IF existingUser # Null
  THEN Did(store,
           globalErrorHandler(AppError("User with this email already exists", 400)),
           Null, Null)
  ELSE IF Matching(store, body.email, body.username) # { }
  THEN Did(store, globalErrorHandler(DuplicateKey), Null, Null)
  ELSE LET user  == create(NewDocument(FreshId(store), body.username, body.email,
                                       body.password, body.firstName, body.lastName,
                                       "user", TRUE, Null, ""))
           token == generateToken(user, clock)
           saved == updateLastLogin(user, clock)
       IN  Did([store EXCEPT ![user._id.hex] = saved],
               WithToken(201, "User registered successfully", token, saved),
               token, saved)

\* register creating users with the role and isActive of the body
register_fieldsFromBody(body, existingUser, store, clock) ==
  IF existingUser # Null
  THEN LET field == IF existingUser.email = body.email THEN "email" ELSE "username"
       IN  Did(store,
               globalErrorHandler(AppError("User with this " \o field \o " already exists", 400)),
               Null, Null)
  ELSE IF Matching(store, body.email, body.username) # { }
  THEN Did(store, globalErrorHandler(DuplicateKey), Null, Null)
  ELSE LET user  == create(NewDocument(FreshId(store), body.username, body.email,
                                       body.password, body.firstName, body.lastName,
                                       IF "role" \in DOMAIN body THEN body.role ELSE "user",
                                       TRUE, Null, ""))
           token == generateToken(user, clock)
           saved == updateLastLogin(user, clock)
       IN  Did([store EXCEPT ![user._id.hex] = saved],
               WithToken(201, "User registered successfully", token, saved),
               token, saved)

\* register over a collection without the unique indexes
register_noUniqueIndex(body, existingUser, store, clock) ==
  IF existingUser # Null
  THEN LET field == IF existingUser.email = body.email THEN "email" ELSE "username"
       IN  Did(store,
               globalErrorHandler(AppError("User with this " \o field \o " already exists", 400)),
               Null, Null)
  ELSE LET user  == create(NewDocument(FreshId(store), body.username, body.email,
                                       body.password, body.firstName, body.lastName,
                                       "user", TRUE, Null, ""))
           token == generateToken(user, clock)
           saved == updateLastLogin(user, clock)
       IN  Did([store EXCEPT ![user._id.hex] = saved],
               WithToken(201, "User registered successfully", token, saved),
               token, saved)

\* register; existingUser is what findOne returned, store is the collection
\* when User.create runs, whose unique indexes refuse a second document with
\* the same email or username
register(body, existingUser, store, clock) ==
  IF existingUser # Null
  THEN LET field == IF existingUser.email = body.email THEN "email" ELSE "username"
       IN  Did(store,
               globalErrorHandler(AppError("User with this " \o field \o " already exists", 400)),
               Null, Null)
  ELSE IF Matching(store, body.email, body.username) # { }
  THEN Did(store, globalErrorHandler(DuplicateKey), Null, Null)
  ELSE LET user  == create(NewDocument(FreshId(store), body.username, body.email,
                                       body.password, body.firstName, body.lastName,
                                       "user", TRUE, Null, ""))
           token == generateToken(user, clock)
           saved == updateLastLogin(user, clock)
       IN  Did([store EXCEPT ![user._id.hex] = saved],
               WithToken(201, "User registered successfully", token, saved),
               token, saved)

\* login checking isActive before the password
login_activeFirst(body, store, clock) ==
  LET found == { h \in HexIds : store[h] # Null /\ store[h].email = body.email }
      invalid == Did(store, globalErrorHandler(AppError("Invalid credentials", 401)), Null, Null)
  IN  IF found = { } THEN invalid
      ELSE LET user == store[CHOOSE h \in found : TRUE]
           IN  IF ~user.isActive
               THEN Did(store, globalErrorHandler(AppError("Account is deactivated", 401)),
                        Null, Null)
               ELSE IF ~comparePassword(body.password, user.password) THEN invalid
               ELSE LET token == generateToken(user, clock)
                        saved == updateLastLogin(user, clock)
                    IN  Did([store EXCEPT ![user._id.hex] = saved],
                            WithToken(200, "Login successful", token, saved),
                            token, saved)

\* login
login(body, store, clock) ==
  LET found == { h \in HexIds : store[h] # Null /\ store[h].email = body.email }
      invalid == Did(store, globalErrorHandler(AppError("Invalid credentials", 401)), Null, Null)
  IN  IF found = { } THEN invalid
      ELSE LET user == store[CHOOSE h \in found : TRUE]
           IN  IF ~comparePassword(body.password, user.password) THEN invalid
               ELSE IF ~user.isActive
               THEN Did(store, globalErrorHandler(AppError("Account is deactivated", 401)),
                        Null, Null)
               ELSE LET token == generateToken(user, clock)
                        saved == updateLastLogin(user, clock)
                    IN  Did([store EXCEPT ![user._id.hex] = saved],
                            WithToken(200, "Login successful", token, saved),
                            token, saved)

\* getMe
getMe(request, store) ==
  Did(store, Ok(200, "User profile retrieved successfully"), Null, request.user.v)



\* updateProfile passing the whole body to findByIdAndUpdate
updateProfile_wholeBody(request, store) ==
  LET id      == request.user.v._id.hex
      updates == request.body
      user    == [f \in DOMAIN store[id] |->
                    IF f \in DOMAIN updates THEN updates[f] ELSE store[id][f]]
  IN  Did([store EXCEPT ![id] = user], Ok(200, "Profile updated successfully"), Null, user)

updateProfile(request, store) ==
  LET AllowedFields == { "firstName", "lastName", "profileImage" }
      id      == request.user.v._id.hex
      updates == [key \in DOMAIN request.body \cap AllowedFields |-> request.body[key]]
      user    == [f \in DOMAIN store[id] |->
                    IF f \in DOMAIN updates THEN updates[f] ELSE store[id][f]]
  IN  Did([store EXCEPT ![id] = user], Ok(200, "Profile updated successfully"), Null, user)

\* logout closing the account of the caller
logout_deactivates(request, store) ==
  Did([store EXCEPT ![request.user.v._id.hex].isActive = FALSE],
      Ok(200, "Logout successful"), Null, request.user.v)

\* logout
logout(request, store) == Did(store, Ok(200, "Logout successful"), Null, request.user.v)

(***************************************************************************)
(* routes/posts.js, routes/users.js: the stack of each route               *)
(***************************************************************************)
\* the posts router with the id of an update validated before authenticateToken
PostRoutes_validateFirst ==
  [ getAllPosts |-> << "validatePagination", "optionalAuth", "getAllPosts" >>,
    getPost     |-> << "validateObjectId('id')", "optionalAuth", "getPost" >>,
    createPost  |-> << "authenticateToken", "validatePostCreation", "createPost" >>,
    updatePost  |-> << "validateObjectId('id')", "authenticateToken",
                       "validatePostUpdate", "updatePost" >>,
    deletePost  |-> << "authenticateToken", "validateObjectId('id')", "deletePost" >> ]

PostRoutes ==
  [ getAllPosts |-> << "validatePagination", "optionalAuth", "getAllPosts" >>,
    getPost     |-> << "validateObjectId('id')", "optionalAuth", "getPost" >>,
    createPost  |-> << "authenticateToken", "validatePostCreation", "createPost" >>,
    updatePost  |-> << "authenticateToken", "validateObjectId('id')",
                       "validatePostUpdate", "updatePost" >>,
    deletePost  |-> << "authenticateToken", "validateObjectId('id')", "deletePost" >> ]

\* the users router with deleteUser left open to every authenticated user
UserRoutes_open ==
  [ getAllUsers |-> << "authenticateToken", "requireRole('admin')",
                       "validatePagination", "getAllUsers" >>,
    getUser     |-> << "authenticateToken", "requireRole('admin')",
                       "validateObjectId('id')", "getUser" >>,
    updateUser  |-> << "authenticateToken", "requireRole('admin')",
                       "validateObjectId('id')", "updateUser" >>,
    deleteUser  |-> << "authenticateToken", "validateObjectId('id')", "deleteUser" >> ]

UserRoutes ==
  [ getAllUsers |-> << "authenticateToken", "requireRole('admin')",
                       "validatePagination", "getAllUsers" >>,
    getUser     |-> << "authenticateToken", "requireRole('admin')",
                       "validateObjectId('id')", "getUser" >>,
    updateUser  |-> << "authenticateToken", "requireRole('admin')",
                       "validateObjectId('id')", "updateUser" >>,
    deleteUser  |-> << "authenticateToken", "requireRole('admin')",
                       "validateObjectId('id')", "deleteUser" >> ]

Validations ==
  { "validatePagination", "validateObjectId('id')", "validatePostCreation",
    "validatePostUpdate", "validateUserRegistration", "validateUserLogin" }

\* the mock controllers of the two routers
Controllers ==
  [ getAllPosts |-> Ok(200, "Posts retrieved successfully"),
    getPost     |-> Ok(200, "Post retrieved successfully"),
    createPost  |-> Ok(201, "Post created successfully"),
    updatePost  |-> Ok(200, "Post updated successfully"),
    deletePost  |-> Ok(200, "Post deleted successfully"),
    getAllUsers |-> Ok(200, "Users retrieved successfully"),
    getUser     |-> Ok(200, "User retrieved successfully"),
    updateUser  |-> Ok(200, "User updated successfully"),
    deleteUser  |-> Ok(200, "User deleted successfully") ]

\* one layer of a stack called on a request
Layer(name, request, store, clock, dbDown) ==
  IF name = "authenticateToken" THEN authenticateToken(request, store, clock, dbDown)
  ELSE IF name = "optionalAuth" THEN optionalAuth(request, store, clock, dbDown)
  ELSE IF name = "requireRole('admin')" THEN requireRole("admin", request)
  ELSE IF name \in Validations THEN handleValidationErrors(name, request)
  ELSE Outcome(request, << Controllers[name] >>, 0)

\* the element of a set of one element
The(S) == CHOOSE x \in S : TRUE

\* Express runs the layers in order; a layer runs when the one before it
\* called next().  ran lists the layers entered.
RECURSIVE Dispatch(_, _, _, _, _, _)
Dispatch(stack, i, out, store, clock, dbDown) ==
  IF i > Len(stack) \/ out.nextCalls = 0 THEN out
  ELSE The({ Dispatch(stack, i + 1,
                      [req |-> o.req, res |-> out.res \o o.res,
                       nextCalls |-> o.nextCalls, ran |-> Append(out.ran, stack[i])],
                      store, clock, dbDown) :
               o \in { Layer(stack[i], out.req, store, clock, dbDown) } })

Route(stack, request, store, clock, dbDown) ==
  Dispatch(stack, 1, [req |-> request, res |-> << >>, nextCalls |-> 1, ran |-> << >>],
           store, clock, dbDown)

(***************************************************************************)
(* routes/auth.js                                                          *)
(***************************************************************************)
AuthRoutes ==
  [ register      |-> << "validateUserRegistration", "register" >>,
    login         |-> << "validateUserLogin", "login" >>,
    getMe         |-> << "authenticateToken", "getMe" >>,
    updateProfile |-> << "authenticateToken", "updateProfile" >>,
    logout        |-> << "authenticateToken", "logout" >> ]

\* what the controller of a route can do with the request that reaches it
Controller(name, request, store, clock) ==
  IF name = "register"
  THEN LET ids == Matching(store, request.body.email, request.body.username)
       IN  { register(request.body, existingUser, store, clock) :
               existingUser \in IF ids = { } THEN { Null } ELSE { store[h] : h \in ids } }
  ELSE IF name = "login" THEN { login(request.body, store, clock) }
  ELSE IF name = "getMe" THEN { getMe(request, store) }
  ELSE IF name = "updateProfile" THEN { updateProfile(request, store) }
  ELSE { logout(request, store) }

\* the identity a token is issued to
Snapshot(user) ==
  [_id |-> user._id, username |-> user.username, email |-> user.email, role |-> user.role]

\* the token of a response as the client keeps it; loggedOut is set once the
\* server has answered a logout sent with it
Issued(did, clock) ==
  [token |-> did.token, source |-> "issued", user |-> Snapshot(did.user), iat |-> clock,
   loggedOut |-> FALSE]


(***************************************************************************)
(* hooks/useApi.js.  An object is a function from its keys to their        *)
(* values; a state cell holds a value, and the hook is rendered again      *)
(* after a cell was set to another value.                                  *)
(***************************************************************************)
EmptyObject == [k \in { } |-> Undefined]

\* { ...target, ...source }: the keys of source overwrite those of target
Spread(target, source) == source @@ target

\* ...o.headers, which adds nothing when o has no headers
HeadersOf(o) == IF "headers" \in DOMAIN o THEN o.headers ELSE EmptyObject

\* the second argument of fetch: { headers: {...}, ...options, ...overrideOptions }
fetchInit(options, overrideOptions) ==
  LET headers == Spread(Spread("Content-Type" :> "application/json", HeadersOf(options)),
                        HeadersOf(overrideOptions))
  IN  Spread(Spread([headers |-> headers], options), overrideOptions)

\* what fetch settles with: a response that is ok and parses to a value, a
\* response that is not ok, or a rejection
Responses ==
  { [ok |-> TRUE, status |-> 200, json |-> [version |-> v]] : v \in 1..2 }
  \cup { [ok |-> FALSE, status |-> 404] }
  \cup { [rejected |-> "Network error"] }

\* a string held in a state cell
Message(text) == [t |-> "string", text |-> text]

\* the message of the error execute catches for a response
ErrorMessage(response) ==
  IF "rejected" \in DOMAIN response THEN response.rejected
  ELSE IF response.status = 404 THEN "HTTP error! status: 404"
  ELSE "HTTP error! status: other"

\* the first render of useApi(url, options, immediate).  options is Undefined
\* when the argument is left out; memoized says that the caller passes the
\* same object at every render, which the default {} never is.
useApi(options, memoized, immediate) ==
  [options   |-> IF options = Undefined THEN EmptyObject ELSE options,
   stable    |-> options # Undefined /\ memoized,
   immediate |-> immediate,
   data      |-> Null,
   loading   |-> FALSE,
   error     |-> Null,
   dirty     |-> FALSE]

\* a call of execute as it starts: outcome is Null until fetch settles, before
\* is the data cell the call found, alone says that no other call was pending
NewCall(h, overrideOptions, manual) ==
  [overrideOptions |-> overrideOptions, manual |-> manual, outcome |-> Null,
   before |-> h.data, alone |-> \A i \in DOMAIN calls : calls[i].outcome # Null]

\* execute up to its await of fetch: setLoading(true), setError(null)
executeStart(h) ==
  [h EXCEPT !.loading = TRUE, !.error = Null,
            !.dirty = h.dirty \/ ~h.loading \/ h.error # Null]

\* execute after fetch settled with an ok response: setData, setLoading(false)
executeReturn(h, result) ==
  [h EXCEPT !.data = result, !.loading = FALSE, !.dirty = TRUE]

\* execute dropping the data it holds when a request fails
executeThrow_clearsData(h, message) ==
  [h EXCEPT !.data = Null, !.error = Message(message), !.loading = FALSE, !.dirty = TRUE]

\* execute after fetch settled otherwise: setError(err.message), setLoading(false)
executeThrow(h, message) ==
  [h EXCEPT !.error = Message(message), !.loading = FALSE,
            !.dirty = h.dirty \/ h.loading \/ h.error # Message(message)]


(***************************************************************************)
(* components/ErrorBoundary.jsx                                            *)
(***************************************************************************)
\* this.state as the constructor leaves it
InitialState == [hasError |-> FALSE, error |-> Null, errorInfo |-> Null]

\* static getDerivedStateFromError, merged into the state
getDerivedStateFromError(state, error) == [state EXCEPT !.hasError = TRUE]

\* what render returns: the children, the fallback prop, or the default
\* error UI with its Try Again button, with or without the details
Rendered(ui, details) == [ui |-> ui, details |-> details]

\* render showing the default error UI whether or not a fallback is given
render_ignoresFallback(props, state) ==
  IF state.hasError
  THEN Rendered("default", props.showDetails /\ state.error # Null)
  ELSE Rendered("children", FALSE)

render(props, state) ==
  IF state.hasError
  THEN IF props.fallback # Undefined THEN Rendered("fallback", FALSE)
       ELSE Rendered("default", props.showDetails /\ state.error # Null)
  ELSE Rendered("children", FALSE)

\* the errorInfo React passes to componentDidCatch
ErrorInfo == [componentStack |-> "\n    at ThrowError\n    at ErrorBoundary"]

\* a mounted boundary: thrown lists the errors of its children, caught is the
\* error React has not yet passed to componentDidCatch, onError lists the
\* calls of the onError prop
Component(props, state, caught, thrown, onError, last) ==
  [props |-> props, state |-> state, output |-> render(props, state),
   caught |-> caught, thrown |-> thrown, onError |-> onError, last |-> last]


(***************************************************************************)
(* The Post model: likes, likeCount, toggleLike                            *)
(***************************************************************************)
\* Array.prototype.findIndex over this.likes with the test of toggleLike; 0
\* stands for -1
findIndex(likes, userId) ==
  LET found == { i \in DOMAIN likes : toString(likes[i].user) = toString(userId) }
  IN  IF found = { } THEN 0 ELSE CHOOSE i \in found : \A j \in found : i <= j

\* likes.push({ user: userId }): the schema casts the id to an ObjectId
Like(userId) ==
  [user |-> IF userId.kind = "ObjectId" THEN userId ELSE ObjectId(userId.hex, 1)]

\* likes.splice(index, 1)
Splice(likes, index) ==
  [j \in 1..(Len(likes) - 1) |-> IF j < index THEN likes[j] ELSE likes[j + 1]]

\* toggleLike comparing the ids themselves
toggleLike_byReference(likes, userId) ==
  LET found == { i \in DOMAIN likes : StrictEq(likes[i].user, userId) }
  IN  IF found # { } THEN Splice(likes, CHOOSE i \in found : \A j \in found : i <= j)
      ELSE Append(likes, Like(userId))

\* toggleLike: the likes of the document it saves
toggleLike(likes, userId) ==
  LET existingLikeIndex == findIndex(likes, userId)
  IN  IF existingLikeIndex > 0 THEN Splice(likes, existingLikeIndex)
      ELSE Append(likes, Like(userId))

\* the virtual likeCount; a document without likes has no such field
likeCount(document) == IF "likes" \in DOMAIN document THEN Len(document.likes) ELSE 0

\* the users of a list of likes
Likers(likes) == { toString(likes[i].user) : i \in DOMAIN likes }

(***************************************************************************)
(* Inputs                                                                  *)
(***************************************************************************)
\* the users whose tokens reach the middleware
TokenUsers ==
  { [_id |-> ObjectId(h, 1), username |-> UsernameOf[h], email |-> EmailOf[h],
     role |-> role] : h \in HexIds, role \in Roles }

\* a token signed under another secret
ForgedToken(user, clock) ==
  jwtSign([id |-> toString(user._id), username |-> user.username,
           email |-> user.email, role |-> user.role],
          OtherSecret, JWT_EXPIRE, clock)

\* an issued token whose payload was rewritten to carry the other role, with
\* the signature of the original
TamperedToken(user, clock) ==
  LET t == generateToken(user, clock).v
      p == Claims(toString(user._id), user.username, user.email,
                  IF user.role = "admin" THEN "user" ELSE "admin",
                  clock, clock + JWT_EXPIRE)
  IN  Str(<< t[1], ".", EncodePayload(p), ".", t[5] >>)

\* a token string a client can present: one obtained for user u at time i,
\* as issued or altered, or one made up
TokenSources == { "issued", "forged", "tampered" }
Presented(u, i, source) ==
  [token |-> IF source = "issued" THEN generateToken(u, i)
             ELSE IF source = "forged" THEN ForgedToken(u, i)
             ELSE TamperedToken(u, i),
   source |-> source, user |-> u, iat |-> i]
MadeUp(m) == [token |-> m, source |-> "malformed", user |-> Null, iat |-> 0]
NoToken == [token |-> Null, source |-> "none", user |-> Null, iat |-> 0]

\* the Authorization headers built from a presented token
BearerHeader(t) == Str(Bearer \o <<" ">> \o t.v)

\* headers from which no token is extracted, t being a valid token
OtherHeaders(t) ==
  { Undefined, Str(<<>>), Str(Bearer), Str(Bearer \o <<" ">>),
    Str(<<"b", "e", "a", "r", "e", "r", " ">> \o t.v),
    Str(<<"B", "a", "s", "i", "c", " ">> \o t.v),
    Str(t.v),
    Str(Bearer \o <<" ", " ">> \o t.v),
    Str(Bearer \o <<" ">> \o t.v \o <<" ">>) }

(***************************************************************************)
(* Initial states                                                          *)
(***************************************************************************)
NoCall ==
  /\ op = "none"
  /\ arg = Undefined
  /\ ret = Undefined
  /\ req = NewRequest(Undefined, Undefined, Undefined)
  /\ res = << >>
  /\ nextCalls = 0

\* nothing is in flight, no post is loaded and no component is mounted
AtRest ==
  /\ pending = << >>
  /\ post = Null
  /\ hook = Null
  /\ calls = << >>
  /\ fetched = << >>
  /\ boundary = Null

\* the utilities and the role and ownership checks read no stored user
InitUtils == now = 0 /\ users = EmptyStore /\ held = NoToken /\ AtRest /\ NoCall

\* the middleware runs over any content of the User collection
Init == now = 0 /\ users \in Stores /\ held = NoToken /\ AtRest /\ NoCall

(***************************************************************************)
(* Actions                                                                 *)
(***************************************************************************)
\* no call is in progress: the previous one returned and its request and
\* response were dropped
Idle == op = "none"

\* the caller of the previous call is done with its result
Done ==
  /\ ~Idle
  /\ op' = "none"
  /\ arg' = Undefined
  /\ ret' = Undefined
  /\ req' = NewRequest(Undefined, Undefined, Undefined)
  /\ res' = << >>
  /\ nextCalls' = 0
  /\ UNCHANGED <<now, users, held, others>>

\* time passes between calls
Tick ==
  /\ Idle
  /\ now < MaxTime
  /\ now' = now + 1
  /\ UNCHANGED <<users, held, others, op, arg, ret, req, res, nextCalls>>

ExtractTokenCall(h) ==
  /\ Idle
  /\ op' = "extractToken"
  /\ arg' = [authHeader |-> h]
  /\ ret' = extractToken(h)
  /\ UNCHANGED <<now, users, held, others, req, res, nextCalls>>

GenerateTokenCall(u) ==
  /\ Idle
  /\ op' = "generateToken"
  /\ arg' = [user |-> u]
  /\ ret' = Return(generateToken(u, now))
  /\ UNCHANGED <<now, users, held, others, req, res, nextCalls>>

VerifyTokenCall(t) ==
  /\ Idle
  /\ op' = "verifyToken"
  /\ arg' = t
  /\ ret' = verifyToken(t.token, now)
  /\ UNCHANGED <<now, users, held, others, req, res, nextCalls>>

HasRoleCall(userRole, requiredRole) ==
  /\ Idle
  /\ op' = "hasRole"
  /\ arg' = [userRole |-> userRole, requiredRole |-> requiredRole]
  /\ ret' = Return(Bool(hasRole(userRole, requiredRole)))
  /\ UNCHANGED <<now, users, held, others, req, res, nextCalls>>

\* the handler runs on a fresh request and response
Handled(name, input, out) ==
  /\ Idle
  /\ op' = name
  /\ arg' = input
  /\ ret' = Undefined
  /\ req' = out.req
  /\ res' = out.res
  /\ nextCalls' = out.nextCalls
  /\ UNCHANGED <<now, users, held, others>>

RequireRole(requiredRole, caller) ==
  LET request == NewRequest(Undefined, caller, Null)
  IN  Handled("requireRole", [requiredRole |-> requiredRole, req |-> request],
              requireRole(requiredRole, request))

RequireOwnership(resourceField, caller, resource) ==
  LET request == NewRequest(Undefined, caller, resource)
  IN  Handled("requireOwnership", [resourceField |-> resourceField, req |-> request],
              requireOwnership(resourceField, request))

\* a request on a protected route, with the header h
Authenticate(h, t, dbDown) ==
  LET request == NewRequest(h, Undefined, Undefined)
  IN  Handled("authenticateToken", [req |-> request, presented |-> t, dbDown |-> dbDown],
              authenticateToken(request, users, now, dbDown))

\* ... carrying the token t as a bearer token
AuthenticateToken(t, dbDown) == Authenticate(BearerHeader(t.token), t, dbDown)

\* ... carrying no token that can be extracted
AuthenticateHeader(h, dbDown) == Authenticate(h, NoToken, dbDown)

\* a request on a route with optional authentication, with the header h
OptionalAuth(h, t, dbDown) ==
  LET request == NewRequest(h, Undefined, Undefined)
  IN  Handled("optionalAuth", [req |-> request, presented |-> t, dbDown |-> dbDown],
              optionalAuth(request, users, now, dbDown))

\* a request dispatched to a route of a router; ret lists the layers entered
RouteCall(router, name, h, t, input, dbDown) ==
  /\ Idle
  /\ \E request \in { RouteRequest(h, input.params, input.query, input.body) } :
       /\ \E out \in { Route(router[name], request, users, now, dbDown) } :
            /\ ret' = out.ran
            /\ req' = out.req
            /\ res' = out.res
            /\ nextCalls' = out.nextCalls
       /\ arg' = [req |-> request, presented |-> t, dbDown |-> dbDown]
  /\ op' = name
  /\ UNCHANGED <<now, users, held, others>>

\* a request dispatched to a route of the auth router: the layers before the
\* controller, then the controller on the collection.  ret lists the layers
\* entered; the client keeps the token of the response when keep is set.
AuthCall(name, h, t, body, keep, dbDown) ==
  /\ Idle
  /\ \E request \in { RouteRequest(h, NoParams, NoQuery, body) } :
       /\ \E out \in { Route(SubSeq(AuthRoutes[name], 1, Len(AuthRoutes[name]) - 1),
                             request, users, now, dbDown) } :
            IF out.nextCalls = 0
            THEN /\ ret' = out.ran
                 /\ req' = out.req
                 /\ res' = out.res
                 /\ UNCHANGED <<users, held>>
            ELSE /\ name = "register" /\ Matching(users, out.req.body.email, out.req.body.username) = { }
                      => \E id \in HexIds : users[id] = Null
                 /\ \E did \in Controller(name, out.req, users, now) :
                      /\ ret' = Append(out.ran, name)
                      /\ req' = out.req
                      /\ res' = out.res \o did.res
                      /\ users' = did.users
                      /\ held' = IF keep /\ did.token # Null THEN Issued(did, now)
                                 ELSE IF keep /\ name = "logout"
                                 THEN [held EXCEPT !.loggedOut = TRUE]
                                 ELSE held
       /\ arg' = [req |-> request, presented |-> t, dbDown |-> dbDown, users |-> users]
  /\ nextCalls' = 0
  /\ op' = name
  /\ UNCHANGED <<now, others>>

\* the collection is edited from outside the API: a role is granted or
\* withdrawn, an account is deactivated or reactivated
SetRole(id, role) ==
  /\ Idle
  /\ users[id] # Null /\ users[id].role # role
  /\ users' = [users EXCEPT ![id].role = role]
  /\ UNCHANGED <<now, held, others, op, arg, ret, req, res, nextCalls>>

SetActive(id, isActive) ==
  /\ Idle
  /\ users[id] # Null /\ users[id].isActive # isActive
  /\ users' = [users EXCEPT ![id].isActive = isActive]
  /\ UNCHANGED <<now, held, others, op, arg, ret, req, res, nextCalls>>

\* ... or a document is deleted
DeleteUser(id) ==
  /\ Idle
  /\ users[id] # Null
  /\ users' = [users EXCEPT ![id] = Null]
  /\ UNCHANGED <<now, held, others, op, arg, ret, req, res, nextCalls>>

\* the forms sent to /register and /login
SignUp(username, email, password, role) ==
  [username |-> username, email |-> email, password |-> password,
   firstName |-> "Test", lastName |-> "User", role |-> role]
RegisterForms ==
  { SignUp(u, e, p, r) : u \in Usernames, e \in EmailInputs,
                         p \in { "Password123", "weak" }, r \in Roles }
LoginForms == [email : EmailInputs, password : Passwords]

RegisterAny ==
  /\ Idle
  /\ \E body \in RegisterForms : AuthCall("register", Undefined, NoToken, body, FALSE, FALSE)
LoginAny ==
  /\ Idle
  /\ \E body \in LoginForms : AuthCall("login", Undefined, NoToken, body, FALSE, FALSE)

\* register up to its await of User.create: a request that passes the
\* validation and whose findOne finds nobody waits for its create; any other
\* request is answered at once
RegisterFindOne(body) ==
  /\ Idle
  /\ \E out \in { Route(<< "validateUserRegistration" >>,
                         RouteRequest(Undefined, NoParams, NoQuery, body), users, now, FALSE) } :
       IF out.nextCalls = 0 \/ Matching(users, out.req.body.email, out.req.body.username) # { }
       THEN AuthCall("register", Undefined, NoToken, body, FALSE, FALSE)
       ELSE /\ Len(pending) < MaxPending
            /\ pending' = Append(pending, out.req)
            /\ UNCHANGED <<now, users, op, arg, ret, req, res, nextCalls, held,
                           post, hook, calls, fetched, boundary>>

\* register from User.create on, for the i-th waiting request, over the
\* collection as it is now
RegisterCreate(i) ==
  /\ Idle
  /\ i \in DOMAIN pending
  /\ \E id \in HexIds : users[id] = Null
  /\ \E did \in { register(pending[i].body, Null, users, now) } :
       /\ users' = did.users
       /\ res' = did.res
  /\ op' = "register"
  /\ arg' = [req |-> pending[i], presented |-> NoToken, dbDown |-> FALSE, users |-> users,
             existingUser |-> Null]
  /\ ret' = << "validateUserRegistration", "register" >>
  /\ req' = pending[i]
  /\ nextCalls' = 0
  /\ pending' = [j \in 1..(Len(pending) - 1) |-> IF j < i THEN pending[j] ELSE pending[j + 1]]
  /\ UNCHANGED <<now, held, post, hook, calls, fetched, boundary>>

\* the bodies sent to /profile
ProfileBodies ==
  { [firstName |-> "Updated", lastName |-> "Name"],
    [firstName |-> "Updated", email |-> "hacker@example.com", role |-> "admin"],
    [profileImage |-> "new.png", isActive |-> FALSE, username |-> "mallory",
     password |-> "Hacked123"] }

\* a stored user sends a body to /profile with a token obtained at time i
UpdateProfileCall ==
  /\ Idle
  /\ \E id \in HexIds, i \in 0..now, k \in TokenSources, body \in ProfileBodies :
       /\ users[id] # Null
       /\ \E t \in { Presented(Snapshot(users[id]), i, k) } :
            AuthCall("updateProfile", BearerHeader(t.token), t, body, FALSE, FALSE)

Sent(params, query, body) == [params |-> params, query |-> query, body |-> body]

\* one client: it signs up and logs in as alice, keeps the token of the last
\* response, and sends it to the protected routes, also after a logout
RegisterMine ==
  /\ Idle
  /\ \E role \in Roles :
       AuthCall("register", Undefined, NoToken,
                SignUp("alice", "alice@example.com", "Password123", role), TRUE, FALSE)
LoginMine ==
  /\ Idle
  /\ \E password \in Passwords :
       AuthCall("login", Undefined, NoToken,
                [email |-> "alice@example.com", password |-> password], TRUE, FALSE)
ProtectedWithHeld ==
  /\ Idle /\ held # NoToken
  /\ \E name \in { "getMe", "logout" }, dbDown \in BOOLEAN :
       AuthCall(name, BearerHeader(held.token), held, NoBody, TRUE, dbDown)
ProtectedWithoutToken ==
  /\ Idle
  /\ \E name \in { "getMe", "logout" } :
       AuthCall(name, Undefined, NoToken, NoBody, FALSE, FALSE)
UserRequests(name) ==
  IF name = "getAllUsers" THEN { Sent(NoParams, [page |-> p], NoBody) : p \in Pages }
  ELSE { Sent([id |-> i], NoQuery, NoBody) : i \in ParamIds }
UsersWithHeld ==
  /\ Idle /\ held # NoToken
  /\ \E name \in DOMAIN UserRoutes :
       \E x \in UserRequests(name) :
         RouteCall(UserRoutes, name, BearerHeader(held.token), held, x, FALSE)
VerifyHeld == held # NoToken /\ VerifyTokenCall(held)

\* config/env.js read under an environment, and index.js: the process
\* connects to the database and listens
EnvSecrets == { Undefined, Str(<< >>), Str(<< OtherSecret >>) }
Config(env) ==
  [JWT_SECRET |-> IF Falsy(env.JWT_SECRET) THEN JWT_SECRET ELSE env.JWT_SECRET.v[1],
   JWT_EXPIRE |-> JWT_EXPIRE]
Startup(env) ==
  /\ Idle
  /\ op' = "startup"
  /\ arg' = [env |-> env]
  /\ ret' = Return([config |-> Config(env), listening |-> TRUE])
  /\ UNCHANGED <<now, users, held, others, req, res, nextCalls>>

\* the started server issues a token under its configuration
IssueAfterStartup(user) ==
  /\ op = "startup" /\ ret.value.listening
  /\ op' = "generateToken"
  /\ arg' = [env |-> arg.env, user |-> user]
  /\ ret' = Return(jwtSign([id |-> toString(user._id), username |-> user.username,
                             email |-> user.email, role |-> user.role],
                            ret.value.config.JWT_SECRET, ret.value.config.JWT_EXPIRE, now))
  /\ UNCHANGED <<now, users, held, others, req, res, nextCalls>>

\* what a client sends to each route of the posts router
PostRequests(name) ==
  IF name = "getAllPosts" THEN { Sent(NoParams, [page |-> p], NoBody) : p \in Pages }
  ELSE IF name = "createPost" THEN { Sent(NoParams, NoQuery, b) : b \in PostBodies }
  ELSE IF name = "updatePost"
  THEN { Sent([id |-> i], NoQuery, b) : i \in ParamIds, b \in PostBodies }
  ELSE { Sent([id |-> i], NoQuery, NoBody) : i \in ParamIds }


\* the options a component passes to useApi and to execute
HookOptions ==
  { EmptyObject,
    [method |-> "GET", headers |-> [Authorization |-> "Bearer token"]],
    [headers |-> ("Content-Type" :> "text/plain")] }
OverrideOptions ==
  { EmptyObject,
    [method |-> "POST", body |-> "{\"test\":true}"],
    [headers |-> [Accept |-> "text/html"]] }

\* what the server API and the other components leave alone
besideHook == <<now, users, op, arg, ret, req, res, nextCalls, held, pending, post, boundary>>

\* execute is entered on the hook h: the cells are set and fetch is called
Begin(h, overrideOptions, manual) ==
  /\ Len(calls) < MaxCalls
  /\ hook' = executeStart(h)
  /\ calls' = Append(calls, NewCall(h, overrideOptions, manual))
  /\ fetched' = Append(fetched, fetchInit(h.options, overrideOptions))

\* the effect of a render: execute() when immediate is set and the
\* dependencies [immediate, execute] differ from those of the render before;
\* execute is a new function whenever options is another object
Effect(h, first) ==
  IF h.immediate /\ (first \/ ~h.stable)
  THEN Begin(h, EmptyObject, FALSE)
  ELSE hook' = h /\ UNCHANGED <<calls, fetched>>

\* a component that calls useApi is mounted
Mount(options, memoized, immediate) ==
  /\ hook = Null
  /\ Effect(useApi(options, memoized, immediate), TRUE)
  /\ UNCHANGED besideHook

\* the component is rendered again after a state cell changed
Rerender ==
  /\ hook # Null
  /\ hook.dirty
  /\ Effect([hook EXCEPT !.dirty = FALSE], FALSE)
  /\ UNCHANGED besideHook

\* the component calls execute or refetch
Execute(overrideOptions) ==
  /\ hook # Null
  /\ Begin(hook, overrideOptions, TRUE)
  /\ UNCHANGED besideHook

\* the fetch of the i-th call settles with a response
Settle(i, response) ==
  /\ i \in DOMAIN calls
  /\ calls[i].outcome = Null
  /\ IF "ok" \in DOMAIN response /\ response.ok
     THEN /\ hook' = executeReturn(hook, response.json)
          /\ calls' = [calls EXCEPT ![i].outcome = Return(response.json)]
     ELSE /\ hook' = executeThrow(hook, ErrorMessage(response))
          /\ calls' = [calls EXCEPT ![i].outcome = Throw("Error", ErrorMessage(response))]
  /\ UNCHANGED fetched
  /\ UNCHANGED besideHook


\* what the server API and the hook leave alone
besideBoundary ==
  <<now, users, op, arg, ret, req, res, nextCalls, held, pending, post, hook, calls, fetched>>

\* the props of a boundary: a fallback node or none, an onError callback or
\* none, showDetails
BoundaryProps ==
  [fallback : { Undefined, Obj("Custom error message") }, onError : BOOLEAN,
   showDetails : BOOLEAN]

\* the errors the children throw
ChildErrors == { [name |-> "Error", message |-> m] : m \in { "Test error", "Other error" } }

\* <ErrorBoundary {...props}> is mounted and renders
MountBoundary(props) ==
  /\ boundary = Null
  /\ boundary' = Component(props, InitialState, Null, << >>, << >>, "mount")
  /\ UNCHANGED besideBoundary

\* a child throws while it is rendered: getDerivedStateFromError, and the
\* boundary is rendered with the new state
ChildThrows(error) ==
  /\ boundary # Null
  /\ boundary.output.ui = "children"
  /\ Len(boundary.thrown) < MaxErrors
  /\ boundary' = Component(boundary.props,
                           getDerivedStateFromError(boundary.state, error),
                           error, Append(boundary.thrown, error), boundary.onError,
                           "throw")
  /\ UNCHANGED besideBoundary

\* componentDidCatch(error, errorInfo) in the commit that follows
componentDidCatch ==
  /\ boundary # Null
  /\ boundary.caught # Null
  /\ boundary' = Component(boundary.props,
                           [boundary.state EXCEPT !.error = boundary.caught,
                                                  !.errorInfo = ErrorInfo],
                           Null, boundary.thrown,
                           IF boundary.props.onError
                           THEN Append(boundary.onError, << boundary.caught, ErrorInfo >>)
                           ELSE boundary.onError,
                           "componentDidCatch")
  /\ UNCHANGED besideBoundary

\* the user clicks Try Again in the default error UI
TryAgain ==
  /\ boundary # Null
  /\ boundary.caught = Null
  /\ boundary.output.ui = "default"
  /\ boundary' = Component(boundary.props,
                           [hasError |-> FALSE, error |-> Null, errorInfo |-> Null],
                           Null, boundary.thrown, boundary.onError, "tryAgain")
  /\ UNCHANGED besideBoundary

\* any client of the API: a stored user sends a fresh token to the routes
\* behind authenticateToken, with bodies that name a role and isActive
ApiSession ==
  /\ Idle
  /\ \E id \in HexIds, name \in { "getMe", "logout" } :
       /\ users[id] # Null
       /\ \E t \in { Presented(Snapshot(users[id]), now, "issued") } :
            AuthCall(name, BearerHeader(t.token), t, NoBody, FALSE, FALSE)
ApiUsers ==
  /\ Idle
  /\ \E id \in HexIds, name \in DOMAIN UserRoutes :
       /\ users[id] # Null
       /\ \E t \in { Presented(Snapshot(users[id]), now, "issued") },
             x \in UserRequests(name)
                   \cup { Sent([id |-> ValidId], NoQuery, [role |-> "admin", isActive |-> FALSE]) } :
            RouteCall(UserRoutes, name, BearerHeader(t.token), t, x, FALSE)
ApiPosts ==
  /\ Idle
  /\ \E id \in HexIds, name \in DOMAIN PostRoutes :
       /\ users[id] # Null
       /\ \E t \in { Presented(Snapshot(users[id]), now, "issued") }, x \in PostRequests(name) :
            RouteCall(PostRoutes, name, BearerHeader(t.token), t, x, FALSE)
RegisterWithExtras ==
  /\ Idle
  /\ \E body \in RegisterForms, isActive \in BOOLEAN :
       AuthCall("register", Undefined, NoToken, body @@ [isActive |-> isActive], FALSE, FALSE)


\* the likes of a stored post: at most one entry per user, in any order
LikesLists ==
  { << >> }
  \cup { << Like(ObjectId(h, r)) >> : h \in HexIds, r \in 1..2 }
  \cup { << Like(ObjectId(p[1], 1)), Like(ObjectId(p[2], 2)) >> :
           p \in { q \in HexIds \X HexIds : q[1] # q[2] } }

\* what the server API and the client leave alone
besidePost ==
  <<now, users, op, arg, ret, req, res, nextCalls, held, pending, hook, calls, fetched, boundary>>

\* a post is loaded; history lists the calls of toggleLike on the document,
\* each with the likers it found
LoadPost(likes) ==
  /\ post = Null
  /\ post' = [likes |-> likes, initial |-> Likers(likes), history |-> << >>]
  /\ UNCHANGED besidePost

\* post.toggleLike(userId), with the id as an ObjectId or as its hex string
ToggleLike(userId) ==
  /\ post # Null
  /\ Len(post.history) < MaxToggles
  /\ post' = [post EXCEPT
                !.likes = toggleLike(post.likes, userId),
                !.history = Append(@, [userId |-> userId, before |-> Likers(post.likes)])]
  /\ UNCHANGED besidePost

(***************************************************************************)
(* The callers and the resources of the role and ownership checks          *)
(***************************************************************************)
IdVal(id) == [t |-> "id", v |-> id]
Callers == { Undefined, Null } \cup { Obj([_id |-> i, role |-> r]) : i \in IdValues, r \in RoleArgs }
ResourceFields == { "author", "owner" }
OwnerValues == { Undefined } \cup { IdVal(i) : i \in IdValues }
Resources ==
  { Undefined, Null }
  \cup { Obj([author |-> a, owner |-> Undefined]) : a \in OwnerValues }
  \cup { Obj([author |-> Undefined, owner |-> o]) : o \in OwnerValues }

(***************************************************************************)
(* Specifications                                                          *)
(***************************************************************************)
NextHeader ==
  \/ \E h \in HeaderValues : ExtractTokenCall(h)
  \/ Done
SpecHeader == InitUtils /\ [][NextHeader]_vars

NextToken ==
  \/ Tick
  \/ \E u \in UserInputs : GenerateTokenCall(u)
  \/ \E u \in UserInputs, i \in 0..now, k \in TokenSources : VerifyTokenCall(Presented(u, i, k))
  \/ \E m \in MalformedTokens : VerifyTokenCall(MadeUp(m))
  \/ Done
SpecToken == InitUtils /\ [][NextToken]_vars

NextPolicy ==
  \/ \E a, b \in RoleArgs : HasRoleCall(a, b)
  \/ \E r \in RoleArgs, c \in Callers : RequireRole(r, c)
  \/ \E f \in ResourceFields, c \in Callers, x \in Resources : RequireOwnership(f, c, x)
  \/ Done
SpecPolicy == InitUtils /\ [][NextPolicy]_vars

Next ==
  \/ Tick
  \/ \E u \in TokenUsers, i \in 0..now, k \in TokenSources, d \in BOOLEAN :
       AuthenticateToken(Presented(u, i, k), d)
  \/ \E m \in MalformedTokens, d \in BOOLEAN : AuthenticateToken(MadeUp(m), d)
  \/ \E u \in TokenUsers, d \in BOOLEAN :
       \E h \in OtherHeaders(generateToken(u, now)) : AuthenticateHeader(h, d)
  \/ Done
Spec == Init /\ [][Next]_vars

NextOptional ==
  \/ Tick
  \/ \E u \in TokenUsers, i \in 0..now, k \in TokenSources, d \in BOOLEAN :
       LET t == Presented(u, i, k) IN OptionalAuth(BearerHeader(t.token), t, d)
  \/ \E m \in MalformedTokens, d \in BOOLEAN :
       OptionalAuth(BearerHeader(m), MadeUp(m), d)
  \/ \E u \in TokenUsers, d \in BOOLEAN :
       \E h \in OtherHeaders(generateToken(u, now)) : OptionalAuth(h, NoToken, d)
  \/ Done
SpecOptional == Init /\ [][NextOptional]_vars

\* the posts router over a collection that holds at most the first user
OneUser == { u \in TokenUsers : u._id.hex = "64a1" }
InitOneUser ==
  /\ now = 0
  /\ users \in { s \in Stores : s["64b2"] = Null }
  /\ held = NoToken /\ AtRest
  /\ NoCall

\* a request on a route of the posts router, with a token or without one
PostsWithToken ==
  /\ Idle
  /\ \E name \in DOMAIN PostRoutes, u \in OneUser, i \in 0..now, k \in TokenSources,
        d \in BOOLEAN :
       \E x \in PostRequests(name), t \in { Presented(u, i, k) } :
         RouteCall(PostRoutes, name, BearerHeader(t.token), t, x, d)
PostsWithoutToken ==
  /\ Idle
  /\ \E name \in DOMAIN PostRoutes, d \in BOOLEAN :
       \E x \in PostRequests(name) : RouteCall(PostRoutes, name, Undefined, NoToken, x, d)

NextPosts ==
  \/ Tick
  \/ PostsWithToken
  \/ PostsWithoutToken
  \/ Done
SpecPosts == InitOneUser /\ [][NextPosts]_vars

\* registration and login over a collection that starts empty
InitEmpty == now = 0 /\ users = EmptyStore /\ held = NoToken /\ AtRest /\ NoCall
NextAccount ==
  \/ Tick
  \/ RegisterAny
  \/ LoginAny
  \/ \E id \in HexIds, isActive \in BOOLEAN : SetActive(id, isActive)
  \/ Done
SpecAccount == InitEmpty /\ [][NextAccount]_vars

\* profile updates over a collection that holds a user and an admin, active
\* or not
InitProfile ==
  /\ now = 0
  /\ users \in { s \in Stores : /\ s["64a1"] # Null /\ s["64a1"].role = "user"
                                /\ s["64b2"] # Null /\ s["64b2"].role = "admin" }
  /\ held = NoToken /\ AtRest
  /\ NoCall
NextProfile ==
  \/ Tick
  \/ UpdateProfileCall
  \/ Done
SpecProfile == InitProfile /\ [][NextProfile]_vars

\* the session of one client
NextSession ==
  \/ Tick
  \/ RegisterMine
  \/ LoginMine
  \/ ProtectedWithHeld
  \/ ProtectedWithoutToken
  \/ UsersWithHeld
  \/ VerifyHeld
  \/ \E id \in HexIds, role \in Roles : SetRole(id, role)
  \/ \E id \in HexIds, isActive \in BOOLEAN : SetActive(id, isActive)
  \/ Done
SpecSession == InitEmpty /\ [][NextSession]_vars

\* the process is started under an environment and serves
NextStartup ==
  \/ Tick
  \/ \E secret \in EnvSecrets : Startup([JWT_SECRET |-> secret])
  \/ \E u \in UserInputs : IssueAfterStartup(u)
  \/ Done
SpecStartup == InitUtils /\ [][NextStartup]_vars


\* a component with the hook: it mounts, renders, calls execute and refetch,
\* and its requests settle in any order
InitHook == now = 0 /\ users = EmptyStore /\ held = NoToken /\ NoCall /\ AtRest
NextHook ==
  \/ \E options \in HookOptions \cup { Undefined }, memoized, immediate \in BOOLEAN :
       Mount(options, memoized, immediate)
  \/ Rerender
  \/ \E overrideOptions \in OverrideOptions : Execute(overrideOptions)
  \/ \E i \in 1..MaxCalls, response \in Responses : Settle(i, response)
SpecHook == InitHook /\ [][NextHook]_vars


\* an ErrorBoundary around children that throw
NextBoundary ==
  \/ \E props \in BoundaryProps : MountBoundary(props)
  \/ \E error \in ChildErrors : ChildThrows(error)
  \/ componentDidCatch
  \/ TryAgain
SpecBoundary == InitHook /\ [][NextBoundary]_vars


\* the session of one client while its record is edited and deleted
NextStored ==
  \/ Tick
  \/ RegisterMine
  \/ LoginMine
  \/ UsersWithHeld
  \/ \E id \in HexIds, role \in Roles : SetRole(id, role)
  \/ \E id \in HexIds, isActive \in BOOLEAN : SetActive(id, isActive)
  \/ \E id \in HexIds : DeleteUser(id)
  \/ Done
SpecStored == InitEmpty /\ [][NextStored]_vars


\* registrations that overlap: each runs its findOne, and later its create
NextRace ==
  \/ \E body \in RegisterForms : RegisterFindOne(body)
  \/ \E i \in 1..MaxPending : RegisterCreate(i)
  \/ Done
SpecRace == InitEmpty /\ [][NextRace]_vars


\* every request of the API, by any client, over any collection
NextApi ==
  \/ RegisterWithExtras
  \/ LoginAny
  \/ ApiSession
  \/ UpdateProfileCall
  \/ ApiUsers
  \/ ApiPosts
  \/ PostsWithoutToken
  \/ Done
SpecApi == Init /\ [][NextApi]_vars


\* one Post document and the calls of toggleLike on it
NextPost ==
  \/ \E likes \in LikesLists : LoadPost(likes)
  \/ \E userId \in IdValues : ToggleLike(userId)
SpecPost == InitHook /\ [][NextPost]_vars

(***************************************************************************)
(* Properties                                                              *)
(***************************************************************************)
\* h is "Bearer", one space, and a non-empty remainder without a space
IsBearerForm(h) ==
  /\ h.t = "string"
  /\ Len(h.v) > Len(Bearer) + 1
  /\ SubSeq(h.v, 1, Len(Bearer) + 1) = Bearer \o <<" ">>
  /\ \A i \in (Len(Bearer) + 2)..Len(h.v) : h.v[i] # " "
BearerRemainder(h) == SubSeq(h.v, Len(Bearer) + 2, Len(h.v))

\* C1: extractToken returns the token exactly for headers of the form
\* "Bearer <token>" with a non-empty token and no further segment, returns
\* null for every other header, and never throws.
C1_ExtractBearer ==
  op = "extractToken" =>
    ret = IF IsBearerForm(arg.authHeader)
          THEN Return(Str(BearerRemainder(arg.authHeader)))
          ELSE Return(Null)

\* the token was obtained from generateToken at arg.iat and is presented
\* before / after its expiry
PresentedValid(t) == t.source = "issued" /\ now < t.iat + JWT_EXPIRE
PresentedExpired(t) == t.source = "issued" /\ now >= t.iat + JWT_EXPIRE
PresentedBad(t) == t.source \in { "forged", "tampered", "malformed" }

\* C2 as stated: verifyToken never throws, every input gives a returned
\* (tagged) result.
C2_NeverThrows == op = "verifyToken" => ret.kind = "return"

\* C2 as amended: verifyToken either returns the decoded payload or throws
\* an Error with the message 'Invalid token'; nothing else leaves it, and it
\* returns exactly for tokens issued under the secret and not yet expired.
C2_ReturnsOrThrowsInvalidToken ==
  op = "verifyToken" =>
    /\ \/ ret.kind = "return" /\ ret.value.t = "object"
       \/ ret = Throw("Error", "Invalid token")
    /\ ret.kind = "return" <=> PresentedValid(arg)

C2_Witness == op = "verifyToken" /\ arg.source = "malformed" /\ ret.kind = "throw"

\* C3: an expired token, a token signed with another secret and a malformed
\* token all give the same failure, 'Invalid token', with nothing that tells
\* the causes apart.
C3_UniformFailure ==
  op = "verifyToken" /\ (PresentedExpired(arg) \/ PresentedBad(arg)) =>
    ret = Throw("Error", "Invalid token")

C3_Witness == op = "verifyToken" /\ PresentedExpired(arg) /\ ret.kind = "throw"

\* C4: verifyToken(generateToken(user)) before the expiry succeeds with a
\* payload whose id, username, email and role are the user's.
C4_RoundTrip ==
  op = "verifyToken" /\ PresentedValid(arg) =>
    /\ ret.kind = "return"
    /\ ret.value.v.id = toString(arg.user._id)
    /\ ret.value.v.username = arg.user.username
    /\ ret.value.v.email = arg.user.email
    /\ ret.value.v.role = arg.user.role

C4_Witness ==
  /\ op = "verifyToken" /\ PresentedValid(arg)
  /\ now > arg.iat /\ arg.user.role = "admin" /\ arg.user._id.kind = "ObjectId"
  /\ ret.kind = "return"

\* the rank of a known role: admin above user
RoleRank(role) == IF role = "admin" THEN 2 ELSE 1

\* C5: hasRole is true iff both roles are known and the caller's rank is at
\* least the required rank; with an undefined or unknown role on either side
\* it is false.
C5_HasRole ==
  op = "hasRole" =>
    ret = Return(Bool(/\ arg.userRole \in Roles
                      /\ arg.requiredRole \in Roles
                      /\ RoleRank(arg.userRole) >= RoleRank(arg.requiredRole)))

Unauthenticated == << Json(401, "Authentication required") >>
InsufficientRole == << Json(403, "Access denied - insufficient permissions") >>
NotOwner == << Json(403, "Access denied - you can only access your own resources") >>

\* C6: requireRole answers 401 'Authentication required' without a caller,
\* calls next and sends nothing iff hasRole(caller.role, requiredRole), and
\* answers 403 otherwise; a denial never calls next.
C6_RequireRole ==
  op = "requireRole" =>
    IF Falsy(arg.req.user) THEN res = Unauthenticated /\ nextCalls = 0
    ELSE IF hasRole(arg.req.user.v.role, arg.requiredRole) THEN res = << >> /\ nextCalls = 1
    ELSE res = InsufficientRole /\ nextCalls = 0

C6_Witness ==
  /\ op = "requireRole" /\ ~Falsy(arg.req.user)
  /\ arg.req.user.v.role = "user" /\ arg.requiredRole = "admin"
  /\ res = InsufficientRole

\* C7: requireOwnership lets an admin caller proceed whatever the owner,
\* the owner field or the resource, also without any resource.
C7_AdminBypass ==
  op = "requireOwnership" /\ ~Falsy(arg.req.user) /\ arg.req.user.v.role = "admin" =>
    res = << >> /\ nextCalls = 1

C7_Witness ==
  /\ op = "requireOwnership" /\ ~Falsy(arg.req.user) /\ arg.req.user.v.role = "admin"
  /\ Falsy(arg.req.resource)
  /\ nextCalls = 1

\* the owner id the request carries under the configured field, if any
OwnerPresent(a) ==
  /\ ~Falsy(a.req.resource)
  /\ a.req.resource.v[a.resourceField] # Undefined
OwnerHex(a) == a.req.resource.v[a.resourceField].v.hex

\* C8: for a caller who is not admin requireOwnership calls next iff the
\* owner id is present and its string equals the string of the caller's id,
\* and answers 403 otherwise; without a caller it answers 401.
C8_Ownership ==
  op = "requireOwnership" =>
    IF Falsy(arg.req.user) THEN res = Unauthenticated /\ nextCalls = 0
    ELSE arg.req.user.v.role # "admin" =>
           IF OwnerPresent(arg) /\ OwnerHex(arg) = arg.req.user.v._id.hex
           THEN res = << >> /\ nextCalls = 1
           ELSE res = NotOwner /\ nextCalls = 0

C8_Witness ==
  /\ op = "requireOwnership" /\ ~Falsy(arg.req.user)
  /\ arg.req.user.v.role = "user"
  /\ OwnerPresent(arg)
  /\ arg.req.resource.v[arg.resourceField].v # arg.req.user.v._id
  /\ OwnerHex(arg) = arg.req.user.v._id.hex
  /\ nextCalls = 1

\* the stored user the presented token names
Stored(t) == users[t.user._id.hex]

AuthMessages ==
  { "Access token is required", "Invalid or expired token",
    "User not found", "Account is deactivated" }

\* C9: authenticateToken rejects with 401 and {success: false, message};
\* the message is that of the first failing check: no extractable token,
\* verification, the stored user, the user's isActive.
C9_AuthFailureMessages ==
  op = "authenticateToken" =>
    LET t == arg.presented
    IN  /\ \A i \in 1..Len(res) : \E m \in AuthMessages : res[i] = Json(401, m)
        /\ t.source = "none" => res = << Json(401, "Access token is required") >>
        /\ PresentedBad(t) \/ PresentedExpired(t) =>
             res = << Json(401, "Invalid or expired token") >>
        /\ PresentedValid(t) /\ ~arg.dbDown /\ Stored(t) = Null =>
             res = << Json(401, "User not found") >>
        /\ PresentedValid(t) /\ ~arg.dbDown /\ Stored(t) # Null /\ ~Stored(t).isActive =>
             res = << Json(401, "Account is deactivated") >>

C9_Witness ==
  /\ op = "authenticateToken" /\ PresentedValid(arg.presented)
  /\ Stored(arg.presented) # Null
  /\ res = << Json(401, "Account is deactivated") >>

\* C10: authenticateToken ends either with one call of next, no response
\* and req.user the stored user (iff the token is extracted and verifies
\* and the user exists and is active), or with one 401 response, no call of
\* next and req.user unset; a failed lookup gives the 401.
C10_OneOutcome ==
  op = "authenticateToken" =>
    LET t == arg.presented
    IN  IF /\ PresentedValid(t) /\ ~arg.dbDown
           /\ Stored(t) # Null /\ Stored(t).isActive
        THEN nextCalls = 1 /\ res = << >> /\ req.user = Obj(WithoutPassword(Stored(t)))
        ELSE /\ nextCalls = 0
             /\ Len(res) = 1 /\ res[1].status = 401
             /\ req.user = Undefined

C10_Witness ==
  /\ op = "authenticateToken" /\ PresentedValid(arg.presented) /\ arg.dbDown
  /\ Stored(arg.presented) # Null /\ Stored(arg.presented).isActive
  /\ nextCalls = 0 /\ Len(res) = 1
\* C19: optionalAuth never rejects: for every header it sends no response
\* and calls next exactly once; it sets req.user, to the stored user, only
\* when the token verifies and the stored user is found and active, and
\* otherwise leaves req.user as it was.
C19_OptionalAuth ==
  op = "optionalAuth" =>
    LET t == arg.presented
    IN  /\ res = << >>
        /\ nextCalls = 1
        /\ IF /\ PresentedValid(t) /\ ~arg.dbDown
              /\ Stored(t) # Null /\ Stored(t).isActive
           THEN req.user = Obj(WithoutPassword(Stored(t)))
           ELSE req = arg.req

\* optionalAuth met the unexpired token of a deactivated user
C19_Witness ==
  /\ op = "optionalAuth"
  /\ PresentedValid(arg.presented) /\ ~arg.dbDown
  /\ Stored(arg.presented) # Null /\ ~Stored(arg.presented).isActive
  /\ nextCalls = 1 /\ req.user = Undefined

\* the caller of a route presents an unexpired issued token of a stored,
\* active user, and the lookup succeeds
CallerAuthenticated ==
  /\ PresentedValid(arg.presented) /\ ~arg.dbDown
  /\ Stored(arg.presented) # Null /\ Stored(arg.presented).isActive

WriteRoutes == { "createPost", "updatePost", "deletePost" }
ReadRoutes == { "getAllPosts", "getPost" }

\* the validations of the route find no error in the request sent
RequestValid ==
  \A i \in 1..Len(PostRoutes[op]) :
     PostRoutes[op][i] \in Validations => validationErrors(PostRoutes[op][i], arg.req) = { }

\* C20: on the write routes of the posts router authentication is decided
\* before validation: a request without a valid token gets 401 whatever its
\* body or id, a 400 'Validation failed' goes only to an authenticated
\* request, and the handler runs only after both have passed; the handlers of
\* the read routes run for a valid request with or without a token.
C20_AuthBeforeValidation ==
  /\ op \in WriteRoutes =>
        /\ Len(res) = 1
        /\ ~CallerAuthenticated => res[1].status = 401 /\ ret = << "authenticateToken" >>
        /\ res[1].status = 400 =>
              CallerAuthenticated /\ res[1].body.message = "Validation failed"
        /\ CallerAuthenticated /\ ~RequestValid => res[1].status = 400
        /\ (ret[Len(ret)] = op) = (CallerAuthenticated /\ RequestValid)
        /\ ret[Len(ret)] = op => ret = PostRoutes[op] /\ res[1] = Controllers[op]
  /\ op \in ReadRoutes =>
        /\ Len(res) = 1
        /\ (ret[Len(ret)] = op) = RequestValid
        /\ RequestValid => res[1] = Controllers[op]

\* an update with an invalid id and no valid token was answered 401
C20_Witness ==
  /\ op = "updatePost"
  /\ ~CallerAuthenticated
  /\ ~isMongoId(arg.req.params.id)
  /\ res = << Json(401, "Access token is required") >>

\* the controller of the route called was reached
Reached == ret[Len(ret)] = op

\* the stored users that hold the email / the username of the request
EmailHolders == { h \in HexIds : arg.users[h] # Null /\ arg.users[h].email = req.body.email }
UsernameHolders ==
  { h \in HexIds : arg.users[h] # Null /\ arg.users[h].username = req.body.username }

\* C16: register with an email or a username already held by a stored user
\* responds 400 with 'User with this email already exists' or 'User with this
\* username already exists', naming a field that collides, creates no user
\* and issues no token; the stored users are unchanged.
C16_DuplicateRegistration ==
  op = "register" /\ Reached /\ EmailHolders \cup UsernameHolders # { } =>
    /\ \/ /\ res = << Json(400, "User with this email already exists") >>
          /\ EmailHolders # { }
       \/ /\ res = << Json(400, "User with this username already exists") >>
          /\ UsernameHolders # { }
    /\ users = arg.users

\* a sign-up with a new email and a username that is taken was refused
C16_Witness ==
  /\ op = "register" /\ Reached
  /\ EmailHolders = { } /\ UsernameHolders # { }
  /\ res = << Json(400, "User with this username already exists") >>

\* the stored user the login is for, and whether the login is to succeed
LoginUser == arg.users[CHOOSE h \in EmailHolders : TRUE]
PasswordMatches == LoginUser.password = Hash(req.body.password)
LoginOk == EmailHolders # { } /\ PasswordMatches /\ LoginUser.isActive

\* C17: login answers 200 'Login successful' with a token exactly when a user
\* with the email exists, the password matches and the account is active; an
\* unknown email and a wrong password get the same 401 'Invalid credentials';
\* a correct password for an inactive account gets 401 'Account is
\* deactivated'; a failing login issues no token and leaves lastLogin alone.
C17_Login ==
  op = "login" /\ Reached =>
    /\ Len(res) = 1
    /\ LoginOk = (res[1].status = 200)
    /\ LoginOk =>
         /\ res[1].body.message = "Login successful"
         /\ res[1].body.data.token = generateToken(LoginUser, now)
         /\ users = [arg.users EXCEPT ![LoginUser._id.hex].lastLogin = now]
    /\ EmailHolders = { } => res = << Json(401, "Invalid credentials") >>
    /\ EmailHolders # { } /\ ~PasswordMatches => res = << Json(401, "Invalid credentials") >>
    /\ EmailHolders # { } /\ PasswordMatches /\ ~LoginUser.isActive =>
         res = << Json(401, "Account is deactivated") >>
    /\ ~LoginOk => users = arg.users

\* a wrong password for a deactivated account was answered as an unknown
\* email is, at a time when a login would have moved lastLogin
C17_Witness ==
  /\ op = "login" /\ Reached
  /\ EmailHolders # { } /\ ~PasswordMatches /\ ~LoginUser.isActive
  /\ LoginUser.lastLogin # now
  /\ res = << Json(401, "Invalid credentials") >>

C11_UserDeniedOnAdminRoutes ==
  op \in DOMAIN UserRoutes /\ Stored(arg.presented) # Null
    /\ Stored(arg.presented).role = "user" =>
      /\ ~Reached
      /\ IF CallerAuthenticated
         THEN /\ res = << Json(403, "Access denied - insufficient permissions") >>
              /\ ret = << "authenticateToken", "requireRole('admin')" >>
         ELSE Len(res) = 1 /\ res[1].status = 401

\* the token of the registration was refused on DELETE /api/users/:id
C11_Witness ==
  /\ op = "deleteUser"
  /\ CallerAuthenticated /\ Stored(arg.presented).role = "user"
  /\ arg.presented.user.role = "user" /\ arg.presented.iat = Stored(arg.presented).lastLogin
  /\ isMongoId(arg.req.params.id)
  /\ res = << Json(403, "Access denied - insufficient permissions") >>

\* C12: the identity and role in a token are fixed at issuance: whatever has
\* become of the stored user's role or active status, verifying the token
\* before its expiry succeeds and yields the identity and role of the time of
\* issuance; after its expiry verification fails; and the token a register or
\* login issues carries the role stored at that time.
C12_FixedAtIssuance ==
  /\ op = "verifyToken" /\ PresentedValid(arg) =>
       ret = Return(Obj(Claims(arg.user._id.hex, arg.user.username, arg.user.email,
                               arg.user.role, arg.iat, arg.iat + JWT_EXPIRE)))
  /\ op = "verifyToken" /\ PresentedExpired(arg) => ret.kind = "throw"
  /\ op \in { "register", "login" } /\ Reached /\ res[1].body.success =>
       /\ held.iat = now
       /\ held.user = Snapshot(Stored(held))
       /\ held.token = res[1].body.data.token

\* a token issued to an active admin was verified after the account had been
\* deactivated and the role withdrawn
C12_Witness ==
  /\ op = "verifyToken" /\ PresentedValid(arg)
  /\ arg.user.role = "admin"
  /\ Stored(arg).role = "user" /\ ~Stored(arg).isActive
  /\ ret.kind = "return" /\ ret.value.v.role = "admin"

\* C13: logout invalidates nothing on the server: an authenticated logout
\* answers 200 'Logout successful' and leaves the stored users as they were,
\* an unauthenticated one is rejected with 401, and a token with which a
\* logout was answered is accepted on the protected routes as any other
\* token is, until it expires.
C13_LogoutKeepsToken ==
  /\ op = "logout" =>
       /\ users = arg.users
       /\ IF CallerAuthenticated
          THEN Reached /\ res = << Ok(200, "Logout successful") >>
          ELSE ~Reached /\ Len(res) = 1 /\ res[1].status = 401
  /\ op \in { "getMe", "logout" } /\ arg.presented # NoToken /\ arg.presented.loggedOut
       /\ CallerAuthenticated =>
       Reached /\ Len(res) = 1 /\ res[1].status = 200

\* the profile was served to a token with which a logout had been answered
C13_Witness ==
  /\ op = "getMe"
  /\ arg.presented # NoToken /\ arg.presented.loggedOut
  /\ now > arg.presented.iat
  /\ Reached /\ res = << Ok(200, "User profile retrieved successfully") >>

\* C15: a missing signing secret at process start is fatal: started without
\* a JWT secret in its environment, the process does not come to listen and
\* issues no token.
C15_MissingSecretAborts ==
  /\ op = "startup" /\ Falsy(arg.env.JWT_SECRET) => ~ret.value.listening
  /\ op = "generateToken" => ~Falsy(arg.env.JWT_SECRET)


\* C21: every call of fetch carries headers equal to Content-Type:
\* application/json overlaid by the headers of the hook's options overlaid by
\* the headers of the call's override options, and every other option from
\* the hook's options with the override options taking precedence.
C21_MergedOptions ==
  hook # Null =>
    \A i \in DOMAIN fetched :
      LET options         == hook.options
          overrideOptions == calls[i].overrideOptions
          others_         == (DOMAIN options \cup DOMAIN overrideOptions) \ { "headers" }
      IN  /\ DOMAIN fetched[i] = others_ \cup { "headers" }
          /\ fetched[i].headers
               = HeadersOf(overrideOptions)
                 @@ HeadersOf(options) @@ ("Content-Type" :> "application/json")
          /\ \A k \in others_ :
               fetched[i][k] = IF k \in DOMAIN overrideOptions THEN overrideOptions[k]
                               ELSE options[k]


\* C22: a hook mounted with immediate = true has issued exactly one request
\* besides those of the calls of execute and refetch, and a hook mounted with
\* immediate = false has issued none besides them.
C22_RequestsOnlyOnDemand ==
  hook # Null =>
    Len(fetched) = (IF hook.immediate THEN 1 ELSE 0)
                   + Cardinality({ i \in DOMAIN calls : calls[i].manual })


\* C23: for a call of execute that no other call overlaps, loading is true
\* until its request settles and false afterwards; after a success data is
\* the parsed response and error is null; after a response that is not ok or
\* a rejected fetch error is the message of the failure, data is what it was
\* before the call, and the error was thrown to the caller.
C23_SingleCall ==
  hook # Null /\ calls # << >> =>
    LET call == calls[Len(calls)]
    IN  call.alone =>
          IF call.outcome = Null THEN hook.loading /\ hook.data = call.before
          ELSE IF call.outcome.kind = "return"
          THEN /\ ~hook.loading
               /\ hook.data = call.outcome.value
               /\ hook.error = Null
          ELSE /\ ~hook.loading
               /\ hook.error = Message(call.outcome.message)
               /\ call.outcome.message \in { "HTTP error! status: 404", "Network error" }
               /\ hook.data = call.before

\* a call that failed on its own after an earlier call had set data
C23_Witness ==
  /\ hook # Null
  /\ Len(calls) = 2
  /\ calls[2].alone
  /\ calls[2].outcome # Null
  /\ calls[2].outcome.kind = "throw"
  /\ calls[2].before # Null


\* C29: while a request of some call of execute is in flight loading is true,
\* and once the call started last has returned data is its result, also when
\* an earlier call settles after it.
C29_OverlappingCalls ==
  hook # Null =>
    /\ (\E i \in DOMAIN calls : calls[i].outcome = Null) => hook.loading
    /\ calls # << >> =>
         LET last == calls[Len(calls)]
         IN  last.outcome # Null /\ last.outcome.kind = "return"
               => hook.data = last.outcome.value


\* C24: a mounted ErrorBoundary starts with hasError false and renders its
\* children; from the throw of a child until a reset hasError is true and it
\* renders the fallback prop if one is given and the default error UI
\* otherwise, never the children; onError was called once for every error
\* caught, with the error and its component stack; after Try Again the state
\* is the initial one and the children are rendered; the details are
\* rendered only with showDetails and both error and errorInfo set.
C24_ErrorBoundary ==
  boundary # Null =>
    /\ boundary.last = "mount" => boundary.state = InitialState
    /\ boundary.last = "tryAgain" => boundary.state = InitialState
    /\ boundary.last \in { "throw", "componentDidCatch" } => boundary.state.hasError
    /\ boundary.output.ui = IF ~boundary.state.hasError THEN "children"
                            ELSE IF boundary.props.fallback # Undefined THEN "fallback"
                            ELSE "default"
    /\ boundary.output.details =>
         /\ boundary.props.showDetails
         /\ boundary.state.error # Null
         /\ boundary.state.errorInfo # Null
    /\ LET handled == IF boundary.caught = Null THEN Len(boundary.thrown)
                      ELSE Len(boundary.thrown) - 1
       IN  boundary.onError
             = IF boundary.props.onError
               THEN [i \in 1..handled |-> << boundary.thrown[i], ErrorInfo >>]
               ELSE << >>

\* the default error UI was shown with its details and reset with Try Again
C24_Witness ==
  /\ boundary # Null
  /\ boundary.last = "tryAgain"
  /\ boundary.props.showDetails
  /\ Len(boundary.onError) = 1


\* C25: on a route behind authenticateToken and requireRole('admin') a
\* request that carries an issued, unexpired token is decided by the stored
\* user alone, whatever role the token carries: 401 'User not found' when the
\* user is gone, 401 'Account is deactivated' when isActive is false, 403
\* when the stored role is not admin, and past both checks otherwise.  Once
\* the token has expired the answer is 401 'Invalid or expired token'.
C25_StoredUserDecides ==
  op \in DOMAIN UserRoutes =>
    IF PresentedExpired(arg.presented)
    THEN res = << Json(401, "Invalid or expired token") >> /\ ret = << "authenticateToken" >>
    ELSE IF Stored(arg.presented) = Null
    THEN res = << Json(401, "User not found") >> /\ ret = << "authenticateToken" >>
    ELSE IF ~Stored(arg.presented).isActive
    THEN res = << Json(401, "Account is deactivated") >> /\ ret = << "authenticateToken" >>
    ELSE IF Stored(arg.presented).role # "admin"
    THEN /\ res = << Json(403, "Access denied - insufficient permissions") >>
         /\ ret = << "authenticateToken", "requireRole('admin')" >>
    ELSE /\ Len(ret) >= 3
         /\ SubSeq(ret, 1, 2) = << "authenticateToken", "requireRole('admin')" >>
         /\ req.user = Obj(WithoutPassword(Stored(arg.presented)))

\* a token issued to a user passed requireRole('admin') after the stored
\* role had become admin, with no new login
C25_Witness ==
  /\ op \in DOMAIN UserRoutes /\ PresentedValid(arg.presented)
  /\ arg.presented.user.role = "user"
  /\ Stored(arg.presented) # Null /\ Stored(arg.presented).role = "admin"
  /\ Reached


\* C28: the stored password is the hash of the password the user registered
\* with, hashed once: the save of updateLastLogin at registration and at
\* every login leaves it alone, comparePassword with the original password
\* is true for every stored user, and a login of an active user with the
\* original credentials succeeds.
C28_HashedOnce ==
  /\ \A h \in HexIds : users[h] # Null => comparePassword("Password123", users[h].password)
  /\ op = "register" /\ Reached /\ res[1].status = 201 =>
       \E h \in HexIds : /\ arg.users[h] = Null /\ users[h] # Null
                         /\ users[h].password = Hash(req.body.password)
  /\ op = "login" /\ Reached /\ EmailHolders # { } =>
       /\ users[LoginUser._id.hex].password = LoginUser.password
       /\ req.body.password = "Password123" /\ LoginUser.isActive => res[1].status = 200

\* a user who had logged in before logged in again, later, with the password
\* of the registration
C28_Witness ==
  /\ op = "login" /\ Reached /\ EmailHolders # { }
  /\ res[1].status = 200
  /\ LoginUser.lastLogin > 0 /\ LoginUser.lastLogin < now
  /\ req.body.password = "Password123"


\* C27: no two stored users share an email and no two share a username; a
\* registration whose create runs when a stored user holds its email or its
\* username, although its findOne had found nobody, creates no user and is
\* not answered 201 with a token; a registration answered 201 created one
\* user.
C27_UniqueUsers ==
  /\ \A h1, h2 \in HexIds :
       h1 # h2 /\ users[h1] # Null /\ users[h2] # Null =>
         users[h1].email # users[h2].email /\ users[h1].username # users[h2].username
  /\ op = "register" /\ Reached =>
       IF EmailHolders \cup UsernameHolders # { }
       THEN /\ users = arg.users
            /\ Len(res) = 1 /\ res[1].status >= 400
            /\ "data" \notin DOMAIN res[1].body
       ELSE /\ res[1].status = 201
            /\ Cardinality({ h \in HexIds : users[h] # Null })
                 = Cardinality({ h \in HexIds : arg.users[h] # Null }) + 1

\* of two registrations with the same email that had both passed findOne the
\* second reached User.create after the first had created its user
C27_Witness ==
  /\ op = "register" /\ Reached
  /\ "existingUser" \in DOMAIN arg
  /\ EmailHolders # { } /\ UsernameHolders = { }
  /\ users = arg.users


\* C26: no request of the API changes the role or isActive of a stored user
\* or removes one, and every user a request creates has role 'user' and
\* isActive true, whatever the body carries.
C26_RolesFixed ==
  [][\A h \in HexIds :
       /\ users[h] # Null =>
            /\ users'[h] # Null
            /\ users'[h].role = users[h].role
            /\ users'[h].isActive = users[h].isActive
       /\ users[h] = Null /\ users'[h] # Null =>
            users'[h].role = "user" /\ users'[h].isActive]_vars

\* a registration whose body asked for role admin and isActive false was
\* answered 201
C26_Witness ==
  /\ op = "register" /\ Reached
  /\ res[1].status = 201
  /\ req.body.role = "admin" /\ ~req.body.isActive
  /\ \E h \in HexIds : arg.users[h] = Null /\ users[h].role = "user" /\ users[h].isActive


\* the likers after the k-th call of toggleLike on the document
LikersAfter(k) ==
  IF k = Len(post.history) THEN Likers(post.likes) ELSE post.history[k + 1].before

\* C30: on a document whose likes held at most one entry per user, after any
\* calls of toggleLike every user has at most one entry; a user is a liker
\* iff the number of their toggles is odd when they were none at the start,
\* and even when they were one; two toggles in a row by the same user leave
\* the likers as they were; likeCount is the number of entries, one per liker.
C30_ToggleLike ==
  post # Null =>
    /\ \A i, j \in DOMAIN post.likes :
         i # j => toString(post.likes[i].user) # toString(post.likes[j].user)
    /\ \A h \in HexIds :
         LET toggles == Cardinality({ k \in DOMAIN post.history :
                                        toString(post.history[k].userId) = h })
         IN  (h \in Likers(post.likes)) = ((h \in post.initial) # (toggles % 2 = 1))
    /\ \A k \in 1..(Len(post.history) - 1) :
         toString(post.history[k].userId) = toString(post.history[k + 1].userId)
           => LikersAfter(k + 1) = post.history[k].before
    /\ likeCount(post) = Cardinality(Likers(post.likes))

\* a user who liked the post toggled with the hex string of their id and then
\* with another ObjectId instance of it
C30_Witness ==
  /\ post # Null
  /\ Len(post.history) = 2
  /\ post.initial = { "64a1" }
  /\ post.history[1].userId = StringId("64a1")
  /\ post.history[2].userId = ObjectId("64a1", 2)
  /\ Likers(post.likes) = { "64a1" }


\* C30 as stated: whatever the likes at the start, a user is in the list iff
\* the number of their toggles is odd
C30_OddToggles ==
  post # Null =>
    \A h \in HexIds :
      LET toggles == Cardinality({ k \in DOMAIN post.history :
                                     toString(post.history[k].userId) = h })
      IN  (h \in Likers(post.likes)) = (toggles % 2 = 1)

====
